---- MODULE Spec2Model ----
(***************************************************************************)
(* A model of the authenticated scraping engine of the repository:         *)
(*   - the two orchestrator runs, scrape_etslink (scrape_etslink.py) and   *)
(*     do_scrape (app.py), entered through their Flask routes;             *)
(*   - the token bucket RateLimiter (src/utils/rate_limiter.py).           *)
(* Every external call (browser, HTTP, file system) is a nondeterministic  *)
(* choice over the outcomes the code distinguishes: a value, or a raise.   *)
(***************************************************************************)
EXTENDS Integers, Sequences, FiniteSets, TLC

\* ------------------------------------------------------------------ bounds
\* Longest list of URLs of a batch fetch.
MaxUrls == 2
\* Largest max_concurrent of an AsyncScraper.
MaxConcurrent == 2

\* Most calls made on one SessionScraper.
MaxOps == 3

\* Most login calls made on one scraper.
MaxLogins == 2
\* Most input elements in the form of a login page.
MaxInputs == 2

\* Most iframes of the page scrape_location works on.
MaxFrames == 2
\* Most rows of a table element.
MaxRows == 2
\* Most anchors of a page.
MaxAnchors == 2
\* Most calls made on one JSONStorage.
MaxStoreOps == 3
\* Most calls made on one ETSLinkScraper.
MaxScraperOps == 4

\* Longest caller-supplied list of targets.
MaxTargets == 2
\* Most tables one scrape_location call finds.
MaxTables == 1

\* Concurrent callers of RateLimiter.acquire.
NumTasks == 2
\* Last tick of the monotonic clock.
MaxTime == 3
\* Largest burst of a RateLimiter.
MaxBurst == 2
\* Largest number of clock ticks it takes to refill one token.
MaxScale == 2

\* ------------------------------------------------------------ input domains
\* Credentials of the request body; "" is data.get("username", "")'s default.
Usernames == {"", "alice"}
Passwords == {"", "s3cret"}
\* Keys of ETSLINK_LOCATIONS in definition order.
ETSLINK_LOCATIONS == <<"LAX", "OAK", "TIW">>
\* Codes a caller may ask for: known ones, a lower-case one, an unknown one.
TargetCodes == {"LAX", "OAK", "lax", "XXX"}
\* Every key result["locations"] can get.
AllCodes == TargetCodes \cup {"LAX", "OAK", "TIW"}
\* str(e) of an exception raised by a collaborator.
ExcText == "exc"

SeqsUpTo(S, n) == UNION {[1..k -> S] : k \in 0..n}

\* The "locations" member of the request body: absent, null, or a list.
LocationArgs ==
    {[kind |-> "absent", list |-> <<>>], [kind |-> "null", list |-> <<>>]}
    \cup {[kind |-> "list", list |-> l] : l \in SeqsUpTo(TargetCodes, MaxTargets)}

\* ---------------------------------------------------------------- helpers
Range(s) == {s[i] : i \in DOMAIN s}

Last(s) == s[Len(s)]

IsPrefix(s, t) == Len(s) <= Len(t) /\ SubSeq(t, 1, Len(s)) = s

\* str.upper() on the codes of the model.
Upper(c) == IF c = "lax" THEN "LAX" ELSE c

\* str(n) for the small numbers interpolated into log messages.
ToStr(n) == IF n = 0 THEN "0" ELSE <<"1", "2", "3", "4", "5", "6", "7", "8", "9">>[n]

\* A log entry: {"type": t, "message": m}; a message is the sequence of the
\* literal pieces and interpolated values of its f-string.
Entry(t, m) == [type |-> t, message |-> m]

\* The value absent from a dict ("error" not in loc_data).
NoKey == "<nokey>"

\* loc_data as scrape_location builds it: the upper-cased code, the number of
\* tables collected, and the "error" member (NoKey when the dict has none).
LocData(code, tables, error) == [code |-> code, tables |-> tables, error |-> error]

\* No entry under a key of result["locations"].
Absent == LocData(NoKey, 0, <<NoKey>>)

\* result["data"] as do_scrape constructs it (lines 26-31): no title, no links,
\* no tables.
InitialData == [title |-> "None", links |-> 0, tables |-> 0]

VARIABLES
    entry,        \* which route serves the request: "none", "ets", "t18"
    pc,           \* position of the run
    username,     \* credentials of the request
    password,
    locations,    \* the list scrape_etslink iterates
    defaulted,    \* the caller gave no list of targets
    idx,          \* enumerate index of the next target (1-based)
    result,       \* the result dict: success, logs, locations, data
    scraper,      \* the scraper's fields: logged_in, and per resource
                  \* (playwright, browser, context, page, client) "is not None"
    h             \* history of the run, read by the properties only

VARIABLES
    rate,         \* RateLimiter.rate, in token units per clock tick
    scale,        \* token units per token: rate is rate/scale tokens per tick
    burst,        \* RateLimiter.burst, in tokens
    tokens,       \* RateLimiter.tokens, in token units
    last_update,  \* RateLimiter.last_update
    lock,         \* RateLimiter._lock: the task holding it, 0 when free
    now,          \* time.monotonic(), in ticks
    tasks,        \* per caller: pc ("idle", "locking", "loop", "sleep", "returned",
                  \* "raised") and, when asleep, the time to wake at
    rlh           \* history of the limiter, read by the properties only

rlVars == <<rate, scale, burst, tokens, last_update, lock, now, tasks, rlh>>

orchVars == <<entry, pc, username, password, locations, defaulted, idx, result,
              scraper, h>>

VARIABLES
    batch,        \* AsyncScraper and one batch call: the semaphore, the call's
                  \* arguments, the task of every URL, the returned list
    bh            \* history of the batch, read by the properties only

batchVars == <<batch, bh>>

VARIABLES
    sess,         \* a SessionScraper (_client, logged_in) and the locals of the
                  \* code using it (its name, form_info)
    sh            \* history of the session, read by the properties only

sessVars == <<sess, sh>>

VARIABLES
    au,           \* one authentication: the caller's form_info, the form data
                  \* posted, what the login call returned, logged_in
    auh           \* history of the authentication, read by the properties only

authVars == <<au, auh>>

VARIABLES
    ex,           \* one extraction: its position, the iframes or the document,
                  \* the locals nav_links and table_data, the result dict
    exh,          \* history of the extraction, read by the properties only
    tb            \* one table element, and what a site extracted from it

extVars == <<ex, exh, tb>>

VARIABLES
    lk            \* the anchors of one page, and the links a site took from them

linkVars == <<lk>>

VARIABLES
    st,           \* one JSONStorage: its file, what the last call raised and returned
    sth           \* history of the storage, read by the properties only

storeVars == <<st, sth>>

VARIABLES
    sel,          \* the selector chains of one login: the chain and the candidate
                  \* reached, whether the loop broke, clicked, the Enter presses
    selh          \* history of the current chain, read by the properties only

selVars == <<sel, selh>>

VARIABLES
    ets,           \* one ETSLinkScraper: logged_in and the resources it holds
    etsh           \* history of the calls made on it, read by the properties only

etsVars == <<ets, etsh>>

vars == <<orchVars, rlVars, batchVars, sessVars, authVars, extVars, linkVars, storeVars, selVars, etsVars>>

\* What the steps of one component leave alone.
nonOrchVars == <<rlVars, batchVars, sessVars, authVars, extVars, linkVars, storeVars, selVars, etsVars>>
nonRLVars == <<orchVars, batchVars, sessVars, authVars, extVars, linkVars, storeVars, selVars, etsVars>>
nonBatchVars == <<orchVars, rlVars, sessVars, authVars, extVars, linkVars, storeVars, selVars, etsVars>>
nonSessVars == <<orchVars, rlVars, batchVars, authVars, extVars, linkVars, storeVars, selVars, etsVars>>
nonAuthVars == <<orchVars, rlVars, batchVars, sessVars, extVars, linkVars, storeVars, selVars, etsVars>>
nonExtVars == <<orchVars, rlVars, batchVars, sessVars, authVars, linkVars, storeVars, selVars, etsVars>>
nonLinkVars == <<orchVars, rlVars, batchVars, sessVars, authVars, extVars, storeVars, selVars, etsVars>>
nonStoreVars == <<orchVars, rlVars, batchVars, sessVars, authVars, extVars, linkVars, selVars, etsVars>>
nonSelVars == <<orchVars, rlVars, batchVars, sessVars, authVars, extVars, linkVars, storeVars, etsVars>>
nonEtsVars == <<orchVars, rlVars, batchVars, sessVars, authVars, extVars, linkVars, storeVars, selVars>>

\* result as both runs construct it (success False, no logs, nothing scraped).
InitialResult ==
    [success |-> FALSE, logs |-> <<>>,
     locations |-> [c \in AllCodes |-> Absent], data |-> InitialData]

\* ETSLinkScraper.__init__ / SessionScraper.__init__: nothing held, not logged in.
InitialScraper ==
    [logged_in |-> FALSE, playwright |-> FALSE, browser |-> FALSE,
     context |-> FALSE, page |-> FALSE, client |-> FALSE]

InitialHistory ==
    [loginRes     |-> "none",  \* outcome of login(): "none", "ok", "fail", "raise"
     loginCalls   |-> 0,       \* calls of login()
     extractCalls |-> 0,       \* calls of scrape_location / the dashboard GET
     closeCalls   |-> 0,       \* calls of close()
     saves        |-> 0,       \* writes to the persistence sink
     net          |-> FALSE,   \* a browser launch, page fetch or login submit
     attempts     |-> <<>>,    \* what the browser did in each scrape_location
     released     |-> <<>>,    \* resources released by close(), in order
     excAt        |-> "none",  \* the step whose exception the handler caught
     fetchFailed  |-> FALSE]   \* the dashboard GET returned None

OrchInit ==
    /\ entry = "none"
    /\ pc = "start"
    /\ username = ""
    /\ password = ""
    /\ locations = <<>>
    /\ defaulted = FALSE
    /\ idx = 1
    /\ result = InitialResult
    /\ scraper = InitialScraper
    /\ h = InitialHistory

\* logs.append(e) / several appends in a row
Log(es) == [result EXCEPT !.logs = @ \o es]

\* Mutant of RouteRejects: the password is not checked.
RouteRejectsNoPasswordCheck(body, u, p) == ~body \/ u = ""

\* Both routes, app.py lines 161-178 and 244-262: the request is refused with
\* status 400 when it has no body, no username or no password.
RouteRejects(body, u, p) == ~body \/ u = "" \/ p = ""

\* The handler of both runs (except Exception as e): one error entry
\* carrying str(e).
ErrorEntry == Entry("error", <<"Error: ", ExcText>>)

\* ------------------------------------------------- ETSLinkScraper (pure parts)

\* What login() sees on the page after submitting (lines 167-190): whether the
\* URL contains "main" or "home", the first error element (none, one with blank
\* text, one with text), whether a password field is still visible, and
\* (lines 149-165) whether a verification input was visible after the submit,
\* in which case login has waited up to 120 s for the URL to match "**/main**".
LoginObs ==
    [url : BOOLEAN, errorElem : {"none", "blank", "text"}, pwdVisible : BOOLEAN,
     verify : BOOLEAN]

\* ETSLinkScraper.login, lines 177-193: the (success, error_message) it returns
\* for a page observation.
LoginClassify(obs) ==
    IF obs.url THEN [ok |-> TRUE, err |-> <<>>]
    ELSE IF obs.errorElem # "none"
         THEN [ok |-> FALSE,
               err |-> IF obs.errorElem = "text" THEN <<"page error text">>
                                                 ELSE <<"Login failed">>]
    ELSE IF obs.pwdVisible
         THEN [ok |-> FALSE,
               err |-> <<"Login failed - invalid credentials or CAPTCHA required">>]
    ELSE [ok |-> TRUE, err |-> <<>>]

\* ETSLinkScraper.login as a whole: every (success, error_message) it can
\* return, with the number of resources (playwright, browser, context, page,
\* in this order) it had created by then and whether the browser launch was
\* reached. An exception anywhere in the try block is turned into
\* (False, "Browser error: ...").
ETSLogin ==
    {[ok |-> FALSE, err |-> <<"Playwright not installed. Run: pip install playwright && playwright install chromium">>,
      made |-> 0, launched |-> FALSE]}
    \cup {[ok |-> FALSE, err |-> <<"Browser error: ", ExcText>>,
           made |-> k, launched |-> k >= 1] : k \in 0..4}
    \cup {[ok |-> LoginClassify(obs).ok, err |-> LoginClassify(obs).err,
           made |-> 4, launched |-> TRUE] : obs \in LoginObs}

\* What the browser does during one scrape_location call: the try block runs
\* to its end or raises part-way, having collected some tables.
ExtractEnvs == [fails : BOOLEAN, tables : 0..MaxTables]

\* ETSLINK_LOCATIONS.get(location_code.upper()) finds a location.
KnownLocation(loc) == Upper(loc) \in Range(ETSLINK_LOCATIONS)

\* ETSLinkScraper.scrape_location: [raised, data]. It raises when not logged
\* in or without a page, returns a bare error dict for an unknown code, and
\* otherwise the result dict, with an "error" member when the try block raised.
ScrapeLocation(loc, li, pg, env) ==
    IF ~li \/ ~pg
    THEN [raised |-> TRUE, data |-> Absent]
    ELSE IF ~KnownLocation(loc)
    THEN [raised |-> FALSE, data |-> LocData(NoKey, 0, <<"Unknown location: ", loc>>)]
    ELSE [raised |-> FALSE,
          data |-> LocData(Upper(loc), env.tables,
                           IF env.fails THEN <<ExcText>> ELSE <<NoKey>>)]

\* "error" in loc_data
HasError(d) == d.error # <<NoKey>>

\* Order in which ETSLinkScraper.close releases the resources.
ReleaseOrder == <<"page", "context", "browser", "playwright">>

Pos(r) == CHOOSE i \in DOMAIN ReleaseOrder : ReleaseOrder[i] = r

\* The resources of ReleaseOrder the scraper holds.
HeldSet == {r \in Range(ReleaseOrder) : scraper[r]}

\* ETSLinkScraper.close: the field r after close() when the release of
\* failAt raises ("none": no release raises). Held resources before failAt are
\* released and set to None; failAt and the ones after it stay as they were.
HeldAfterClose(held, r, failAt) ==
    /\ held
    /\ failAt # "none"
    /\ Pos(r) >= Pos(failAt)

\* The resources close() released, in order, when the release of failAt raises.
ReleasedBy(heldSet, failAt) ==
    SelectSeq(ReleaseOrder,
              LAMBDA r : r \in heldSet /\ (failAt = "none" \/ Pos(r) < Pos(failAt)))

\* ---------------------------------------------------- scrape_etslink (ETSLink run)

\* The list scrape_etslink iterates: the caller's, or every known location when
\* the request names none (app.py line 254) or passes null (line 544).
Targets(locArg) == IF locArg.kind = "list" THEN locArg.list ELSE ETSLINK_LOCATIONS

\* scrape_etslink_route, then scrape_etslink up to its first log entry: the
\* request is validated, the list of targets defaults to all known locations,
\* the scraper is constructed.
EtsRoute(body, u, p, locArg) ==
    /\ pc = "start"
    /\ body \/ (u = "" /\ p = "" /\ locArg.kind = "absent")
    /\ entry' = "ets"
    /\ username' = u
    /\ password' = p
    /\ IF RouteRejects(body, u, p)
       THEN /\ pc' = "rejected"
            /\ UNCHANGED <<locations, defaulted, result>>
       ELSE /\ pc' = "e_login"
            /\ defaulted' = (locArg.kind # "list")
            /\ locations' = Targets(locArg)
            /\ result' = Log(<<Entry("info", <<"Connecting to ETSLink...">>)>>)
    /\ UNCHANGED <<idx, scraper, h>>
    /\ UNCHANGED nonOrchVars

\* Mutant of EtsAfterLogin: the result of login is ignored.
EtsAfterLoginIgnoringFailure(ok, n) == IF n = 0 THEN "e_save" ELSE "e_loop"

\* scrape_etslink lines 559-567: where the run goes after login returned.
EtsAfterLogin(ok, n) ==
    IF ~ok THEN "e_close" ELSE IF n = 0 THEN "e_save" ELSE "e_loop"

\* scrape_etslink lines 558-565: the login call and the branch on its result.
EtsLogin(o) ==
    /\ pc = "e_login"
    /\ scraper' = [scraper EXCEPT !.logged_in = o.ok,
                                  !.playwright = (o.made >= 1),
                                  !.browser = (o.made >= 2),
                                  !.context = (o.made >= 3),
                                  !.page = (o.made >= 4)]
    /\ h' = [h EXCEPT !.loginCalls = @ + 1,
                      !.net = (@ \/ o.launched),
                      !.loginRes = IF o.ok THEN "ok" ELSE "fail"]
    /\ result' =
         IF ~o.ok
         THEN Log(<<Entry("error", IF o.err = <<>>
                                   THEN <<"Login failed. Check credentials.">>
                                   ELSE o.err)>>)
         ELSE Log(<<Entry("success", <<"Login successful!">>),
                    Entry("info", <<"Scraping ", ToStr(Len(locations)),
                                    " locations...">>)>>)
    /\ pc' = EtsAfterLogin(o.ok, Len(locations))
    /\ UNCHANGED <<entry, username, password, locations, defaulted, idx>>
    /\ UNCHANGED nonOrchVars

\* The "Scraping loc (i/n)..." entry that opens the iteration of target i.
StartEntry(loc, i, n) ==
    Entry("info", <<"Scraping ", loc, " (", ToStr(i), "/", ToStr(n), ")...">>)

\* The entry that closes the iteration: tables found, or the error.
OutcomeEntry(loc, d) ==
    IF ~HasError(d)
    THEN Entry("success", <<"  ", loc, ": Found ", ToStr(d.tables), " tables">>)
    ELSE Entry("error", <<"  ", loc, ": ">> \o d.error)

\* Mutant of TargetAt: the list is walked from its end.
TargetAtReversed(locs, i) == locs[Len(locs) - i + 1]

\* for i, loc in enumerate(locations): the target of iteration i (1-based).
TargetAt(locs, i) == locs[i]

\* scrape_etslink line 568: the loop takes the next target and logs its start.
EtsBeginTarget ==
    /\ pc = "e_loop"
    /\ result' = Log(<<StartEntry(TargetAt(locations, idx), idx, Len(locations))>>)
    /\ pc' = "e_extract"
    /\ UNCHANGED <<entry, username, password, locations, defaulted, idx, scraper, h>>
    /\ UNCHANGED nonOrchVars

\* Mutant of EtsAfterExtract: a failed target breaks out of the loop.
EtsAfterExtractAbort(d, i, n) == IF i = n \/ HasError(d) THEN "e_save" ELSE "e_loop"

\* scrape_etslink lines 567-576: where the run goes after the iteration of
\* target i of n stored loc_data d: on to the next target, whatever d is.
EtsAfterExtract(d, i, n) == IF i = n THEN "e_save" ELSE "e_loop"

\* scrape_etslink lines 569-576: scrape_location for the target, its result
\* stored under the target's key, the outcome entry; an exception escaping
\* scrape_location goes to the handler of line 586.
EtsExtract(env) ==
    /\ pc = "e_extract"
    /\ LET loc == TargetAt(locations, idx)
           r   == ScrapeLocation(loc, scraper.logged_in, scraper.page, env)
       IN  IF r.raised
           THEN /\ result' = Log(<<ErrorEntry>>)
                /\ h' = [h EXCEPT !.extractCalls = @ + 1, !.excAt = "extract"]
                /\ pc' = "e_close"
                /\ UNCHANGED idx
           ELSE /\ result' = [result EXCEPT !.locations[loc] = r.data,
                                            !.logs = Append(@, OutcomeEntry(loc, r.data))]
                /\ h' = [h EXCEPT !.extractCalls = @ + 1,
                                  !.attempts = Append(@, env)]
                /\ idx' = idx + 1
                /\ pc' = EtsAfterExtract(r.data, idx, Len(locations))
    /\ UNCHANGED <<entry, username, password, locations, defaulted, scraper>>
    /\ UNCHANGED nonOrchVars

\* Mutant of EtsSuccessFlag: a run with a failed target is not successful.
EtsSuccessFlagStrict == \A c \in AllCodes : ~HasError(result.locations[c])

\* result["success"] once the results are saved (line 583).
EtsSuccessFlag == TRUE

\* scrape_etslink lines 578-587: the results are saved and the run is marked
\* successful; if JSONStorage raises, the handler logs the error instead.
EtsSave(raises) ==
    /\ pc = "e_save"
    /\ IF raises
       THEN /\ result' = Log(<<ErrorEntry>>)
            /\ h' = [h EXCEPT !.excAt = "save"]
       ELSE /\ result' = [result EXCEPT
                 !.success = EtsSuccessFlag,
                 !.logs = @ \o <<Entry("success", <<"Data saved to data/etslink_data.json">>),
                                 Entry("success", <<"Scraping complete!">>)>>]
            /\ h' = [h EXCEPT !.saves = @ + 1]
    /\ pc' = "e_close"
    /\ UNCHANGED <<entry, username, password, locations, defaulted, idx, scraper>>
    /\ UNCHANGED nonOrchVars

\* scrape_etslink lines 588-591: the finally block calls close(); the run
\* returns its result unless a release raised, which propagates to the caller.
EtsClose(failAt) ==
    /\ pc = "e_close"
    /\ failAt \in HeldSet \cup {"none"}
    /\ scraper' = [scraper EXCEPT
                     !.page = HeldAfterClose(@, "page", failAt),
                     !.context = HeldAfterClose(@, "context", failAt),
                     !.browser = HeldAfterClose(@, "browser", failAt),
                     !.playwright = HeldAfterClose(@, "playwright", failAt)]
    /\ h' = [h EXCEPT !.closeCalls = @ + 1,
                      !.released = @ \o ReleasedBy(HeldSet, failAt)]
    /\ pc' = IF failAt = "none" THEN "done" ELSE "raised"
    /\ UNCHANGED <<entry, username, password, locations, defaulted, idx, result>>
    /\ UNCHANGED nonOrchVars

EtsNext ==
    \/ \E body \in BOOLEAN, u \in Usernames, p \in Passwords, a \in LocationArgs :
          EtsRoute(body, u, p, a)
    \/ \E o \in ETSLogin : EtsLogin(o)
    \/ EtsBeginTarget
    \/ \E env \in ExtractEnvs : EtsExtract(env)
    \/ \E raises \in BOOLEAN : EtsSave(raises)
    \/ \E f \in Range(ReleaseOrder) \cup {"none"} : EtsClose(f)

\* ------------------------------------------------- SessionScraper (pure parts)

\* What the login POST gives back: no body (post returned None or ""), or a
\* page on which the find calls of login and login_with_details find or do
\* not find: a form with id loginForm, an input of type password, an element
\* with "error" in its class, an element with "error" in its id, a div of
\* class alert.
LoginResponses ==
    {[body |-> FALSE, formById |-> FALSE, pwdInput |-> FALSE,
      errClass |-> FALSE, errId |-> FALSE, alert |-> FALSE]}
    \cup [body : {TRUE}, formById : BOOLEAN, pwdInput : BOOLEAN,
          errClass : BOOLEAN, errId : BOOLEAN, alert : BOOLEAN]

\* login_form of lines 170 and 231: the form with id loginForm, or else an
\* input of type password.
LoginFormFound(resp) == resp.formById \/ resp.pwdInput

\* Mutant of SessionLogin: an input of type password does not count.
SessionLoginIgnoringPassword(resp) == resp.body /\ ~resp.formById /\ ~resp.errClass

\* SessionScraper.login, lines 166-181: True only for a page without a login
\* form and without an element of an error class.
SessionLogin(resp) == resp.body /\ ~LoginFormFound(resp) /\ ~resp.errClass

\* error_msg of login_with_details, lines 217-229: found by class, by id, or
\* as a div of class alert (span.error and p.error are found by class).
DetailsErrorFound(resp) == resp.errClass \/ resp.errId \/ resp.alert

\* SessionScraper.login_with_details, lines 212-244: the "success" member of
\* the dict it returns and its "error" member (NoKey when it has none).
LoginWithDetails(resp) ==
    IF ~resp.body THEN [success |-> FALSE, error |-> "No response from server"]
    ELSE IF ~LoginFormFound(resp) /\ ~DetailsErrorFound(resp)
    THEN [success |-> TRUE, error |-> NoKey]
    ELSE [success |-> FALSE,
          error |-> IF DetailsErrorFound(resp) THEN "text of the error element"
                    ELSE "Login failed - invalid credentials or session error"]

\* SessionScraper.close: the client after close() when aclose() raises or not.
ClientAfterClose(held, raises) == held /\ raises

\* ------------------------------------------------------- do_scrape (T18 run)

\* The route scrape() of app.py, then do_scrape up to its first log entry.
T18Route(body, u, p) ==
    /\ pc = "start"
    /\ body \/ (u = "" /\ p = "")
    /\ entry' = "t18"
    /\ username' = u
    /\ password' = p
    /\ IF RouteRejects(body, u, p)
       THEN /\ pc' = "rejected"
            /\ UNCHANGED result
       ELSE /\ pc' = "t_form"
            /\ result' = Log(<<Entry("info", <<"Connecting to T18 Tideworks...">>)>>)
    /\ UNCHANGED <<locations, defaulted, idx, scraper, h>>
    /\ UNCHANGED nonOrchVars

\* do_scrape lines 36-37: get_login_form_fields fetches the login page (the
\* client is created on this first request) and returns the form's fields,
\* or {} when there is none; res = "raise": an exception escapes it.
T18GetForm(res) ==
    /\ pc = "t_form"
    /\ scraper' = [scraper EXCEPT !.client = TRUE]
    /\ IF res = "raise"
       THEN /\ result' = Log(<<ErrorEntry>>)
            /\ h' = [h EXCEPT !.net = TRUE, !.excAt = "form"]
            /\ pc' = "t_close"
       ELSE /\ result' = Log(<<Entry("success", <<"Found login form">>)>>)
            /\ h' = [h EXCEPT !.net = TRUE]
            /\ pc' = "t_login"
    /\ UNCHANGED <<entry, username, password, locations, defaulted, idx>>
    /\ UNCHANGED nonOrchVars

\* The entry of line 39, f"Logging in as {username}...".
LoggingInEntry(u) == Entry("info", <<"Logging in as ", u, "...">>)

\* Mutant of T18AfterLogin: a failed login is tried again.
T18AfterLoginRetry(ok) == IF ~ok THEN "t_login" ELSE "t_dash"

\* Mutant of T18AfterLogin: the dashboard is fetched whatever login returned.
T18AfterLoginIgnoringFailure(ok) == "t_dash"

\* do_scrape lines 51-55: where the run goes after login returned.
T18AfterLogin(ok) == IF ~ok THEN "t_close" ELSE "t_dash"

\* do_scrape lines 39-56: the login call and the branch on its result.
T18Login(raises, resp) ==
    /\ pc = "t_login"
    /\ IF raises
       THEN /\ h' = [h EXCEPT !.loginCalls = @ + 1, !.net = TRUE,
                              !.loginRes = "raise", !.excAt = "login"]
            /\ result' = Log(<<LoggingInEntry(username), ErrorEntry>>)
            /\ pc' = "t_close"
            /\ UNCHANGED scraper
       ELSE LET ok == SessionLogin(resp)
            IN  /\ h' = [h EXCEPT !.loginCalls = @ + 1, !.net = TRUE,
                                  !.loginRes = IF ok THEN "ok" ELSE "fail"]
                /\ scraper' = [scraper EXCEPT !.logged_in = (@ \/ ok)]
                /\ result' =
                     IF ok
                     THEN Log(<<LoggingInEntry(username),
                                Entry("success", <<"Login successful!">>),
                                Entry("info", <<"Fetching dashboard...">>)>>)
                     ELSE Log(<<LoggingInEntry(username),
                                Entry("error", <<"Login failed. Check your credentials.">>)>>)
                /\ pc' = T18AfterLogin(ok)
    /\ UNCHANGED <<entry, username, password, locations, defaulted, idx>>
    /\ UNCHANGED nonOrchVars

\* do_scrape lines 58-63: the dashboard GET; res is "html", "none" (get
\* returned None after an HTTP error) or "raise". A failed fetch is logged
\* and the run returns its result as it stands, success False.
T18Dashboard(res) ==
    /\ pc = "t_dash"
    /\ IF res = "raise"
       THEN /\ result' = Log(<<ErrorEntry>>)
            /\ h' = [h EXCEPT !.extractCalls = @ + 1, !.excAt = "dashboard"]
            /\ pc' = "t_close"
       ELSE IF res = "none"
       THEN /\ result' = Log(<<Entry("error", <<"Failed to fetch dashboard.">>)>>)
            /\ h' = [h EXCEPT !.extractCalls = @ + 1, !.fetchFailed = TRUE]
            /\ pc' = "t_close"
       ELSE /\ result' = Log(<<Entry("info", <<"Parsing page content...">>)>>)
            /\ h' = [h EXCEPT !.extractCalls = @ + 1]
            /\ pc' = "t_parse"
    /\ UNCHANGED <<entry, username, password, locations, defaulted, idx, scraper>>
    /\ UNCHANGED nonOrchVars

\* Mutant of T18FinalEntries: the summary entry comes last.
T18FinalEntriesSwapped(nLinks, nTables) ==
    <<Entry("success", <<"Data saved to data/t18_data.json">>),
      Entry("success", <<"Scraping complete!">>),
      Entry("info", <<"Found ", ToStr(nLinks), " links and ", ToStr(nTables), " tables">>)>>

\* do_scrape lines 107-109: the three entries that end a successful run.
T18FinalEntries(nLinks, nTables) ==
    <<Entry("success", <<"Data saved to data/t18_data.json">>),
      Entry("info", <<"Found ", ToStr(nLinks), " links and ", ToStr(nTables), " tables">>),
      Entry("success", <<"Scraping complete!">>)>>

\* do_scrape lines 64-118: the page is parsed, links and tables extracted,
\* the data saved, the run marked successful; out is "ok", "parse_raise" (an
\* exception while parsing or extracting) or "save_raise".
T18Extract(out, nLinks, nTables) ==
    /\ pc = "t_parse"
    /\ IF out = "ok"
       THEN /\ result' = [result EXCEPT
                 !.logs = @ \o T18FinalEntries(nLinks, nTables),
                 !.success = TRUE,
                 !.data = [title |-> "title", links |-> nLinks, tables |-> nTables]]
            /\ h' = [h EXCEPT !.saves = @ + 1]
       ELSE /\ result' = Log(<<ErrorEntry>>)
            /\ h' = [h EXCEPT !.excAt = IF out = "save_raise" THEN "save" ELSE "parse"]
    /\ pc' = "t_close"
    /\ UNCHANGED <<entry, username, password, locations, defaulted, idx, scraper>>
    /\ UNCHANGED nonOrchVars

\* do_scrape lines 122-125: the finally block calls close(); the run returns
\* its result unless aclose() raised, which propagates to the caller.
T18Close(raises) ==
    /\ pc = "t_close"
    /\ raises => scraper.client
    /\ scraper' = [scraper EXCEPT !.client = ClientAfterClose(@, raises)]
    /\ h' = [h EXCEPT !.closeCalls = @ + 1,
                      !.released = IF scraper.client /\ ~raises
                                   THEN Append(@, "client") ELSE @]
    /\ pc' = IF raises THEN "raised" ELSE "done"
    /\ UNCHANGED <<entry, username, password, locations, defaulted, idx, result>>
    /\ UNCHANGED nonOrchVars

T18Next ==
    \/ \E body \in BOOLEAN, u \in Usernames, p \in Passwords : T18Route(body, u, p)
    \/ \E res \in {"fields", "empty", "raise"} : T18GetForm(res)
    \/ \E raises \in BOOLEAN, resp \in LoginResponses : T18Login(raises, resp)
    \/ \E res \in {"html", "none", "raise"} : T18Dashboard(res)
    \/ \E out \in {"ok", "parse_raise", "save_raise"}, nl \in 0..1, nt \in 0..MaxTables :
          T18Extract(out, nl, nt)
    \/ \E raises \in BOOLEAN : T18Close(raises)

\* ------------------------------------------------------------- RateLimiter
\* Time is counted in ticks and tokens in units of 1/scale token, so that a
\* limiter of rate 1 refills one unit per tick (1/scale tokens per tick) and
\* every wait the code computes is a whole number of ticks.

RLTasks == 1..NumTasks

\* requests_per_second as units per tick: negative, zero and positive rates.
Rates == {-1, 0, 1}

Min(a, b) == IF a <= b THEN a ELSE b

\* One token, and the burst, in token units.
OneToken == scale
BurstUnits == burst * scale

\* Mutant of RefillTokens: the bucket is not capped at burst.
RefillTokensUncapped(tok, elapsed) == tok + elapsed * rate

\* RateLimiter._refill_tokens, line 54: the tokens after a refill.
RefillTokens(tok, elapsed) == Min(BurstUnits, tok + elapsed * rate)

\* Mutant of HasToken: one token in the bucket is not enough.
HasTokenStrict(tok) == tok > OneToken

\* RateLimiter._wait_for_token, line 40: self.tokens >= 1.
HasToken(tok) == tok >= OneToken

\* Mutant of Consume: a returning acquire() leaves the bucket as it is.
ConsumeNothing(tok) == tok

\* RateLimiter._wait_for_token, line 41: self.tokens -= 1.
Consume(tok) == tok - OneToken

\* Mutant of LockFree: the lock lets every caller in.
LockFreeAlways == TRUE

\* asyncio.Lock, entered at line 33: a caller gets the lock when nobody holds it.
LockFree == lock = 0

\* RateLimiter._wait_for_token, line 44: (1 - tokens) / rate, in ticks, for a
\* rate of 1 or -1 unit per tick.
WaitTime(tok) == (OneToken - tok) * rate

RLInitialHistory ==
    [completions |-> <<>>,   \* the times at which acquire() returned
     step        |-> "none", \* what the last step of the limiter was
     raised      |-> 0]      \* acquire() calls that ended in an exception

\* RateLimiter.__init__ for every configuration of the model, no caller yet.
RLInit ==
    /\ rate \in Rates
    /\ scale \in 1..MaxScale
    /\ burst \in 0..MaxBurst
    /\ tokens = burst * scale
    /\ last_update = 0
    /\ lock = 0
    /\ now = 0
    /\ tasks = [t \in RLTasks |-> [pc |-> "idle", wake |-> 0]]
    /\ rlh = RLInitialHistory

\* A limiter nobody uses (the state of the limiter during the orchestrator runs).
RLIdle ==
    /\ rate = 1
    /\ scale = 1
    /\ burst = 1
    /\ tokens = 1
    /\ last_update = 0
    /\ lock = 0
    /\ now = 0
    /\ tasks = [t \in RLTasks |-> [pc |-> "idle", wake |-> 0]]
    /\ rlh = RLInitialHistory

\* The monotonic clock advances.
RLTick ==
    /\ now < MaxTime
    /\ now' = now + 1
    /\ rlh' = [rlh EXCEPT !.step = "tick"]
    /\ UNCHANGED <<rate, scale, burst, tokens, last_update, lock, tasks>>
    /\ UNCHANGED nonRLVars

\* A task calls acquire(), for the first time or again after a call that
\* returned, and reaches "async with self._lock".
RLCall(t) ==
    /\ tasks[t].pc \in {"idle", "returned"}
    /\ tasks' = [tasks EXCEPT ![t].pc = "locking"]
    /\ rlh' = [rlh EXCEPT !.step = "call"]
    /\ UNCHANGED <<rate, scale, burst, tokens, last_update, lock, now>>
    /\ UNCHANGED nonRLVars

\* The task gets the lock and enters _wait_for_token.
RLLock(t) ==
    /\ tasks[t].pc = "locking"
    /\ LockFree
    /\ lock' = t
    /\ tasks' = [tasks EXCEPT ![t].pc = "loop"]
    /\ rlh' = [rlh EXCEPT !.step = "lock"]
    /\ UNCHANGED <<rate, scale, burst, tokens, last_update, now>>
    /\ UNCHANGED nonRLVars

\* One pass of the loop of _wait_for_token, lines 38-45: refill; with a token
\* in the bucket take it and return (the lock is released on the way out);
\* otherwise compute the wait, which divides by rate, and go to sleep.
RLAttempt(t) ==
    /\ tasks[t].pc = "loop"
    /\ LET filled == RefillTokens(tokens, now - last_update)
       IN  /\ last_update' = now
           /\ IF HasToken(filled)
              THEN /\ tokens' = Consume(filled)
                   /\ lock' = 0
                   /\ tasks' = [tasks EXCEPT ![t].pc = "returned"]
                   /\ rlh' = [rlh EXCEPT !.step = "attempt",
                                         !.completions = Append(@, now)]
              ELSE IF rate = 0
              THEN /\ tokens' = filled
                   /\ lock' = 0
                   /\ tasks' = [tasks EXCEPT ![t].pc = "raised"]
                   /\ rlh' = [rlh EXCEPT !.step = "attempt", !.raised = @ + 1]
              ELSE /\ tokens' = filled
                   /\ tasks' = [tasks EXCEPT ![t] = [pc |-> "sleep",
                                                     wake |-> now + WaitTime(filled)]]
                   /\ rlh' = [rlh EXCEPT !.step = "attempt"]
                   /\ UNCHANGED lock
    /\ UNCHANGED <<rate, scale, burst, now>>
    /\ UNCHANGED nonRLVars

\* asyncio.sleep(wait_time) is over: not before wait_time has passed, and at
\* once for a wait that is not positive.
RLWake(t) ==
    /\ tasks[t].pc = "sleep"
    /\ now >= tasks[t].wake
    /\ tasks' = [tasks EXCEPT ![t] = [pc |-> "loop", wake |-> 0]]
    /\ rlh' = [rlh EXCEPT !.step = "wake"]
    /\ UNCHANGED <<rate, scale, burst, tokens, last_update, lock, now>>
    /\ UNCHANGED nonRLVars

RLNext ==
    \/ RLTick
    \/ \E t \in RLTasks : RLCall(t)
    \/ \E t \in RLTasks : RLLock(t)
    \/ \E t \in RLTasks : RLAttempt(t)
    \/ \E t \in RLTasks : RLWake(t)

\* ------------------------------------------------------------- AsyncScraper

\* The URLs a caller may put in a batch.
Urls == {"u1", "u2"}

\* What a GET can come to: a 2xx response with a JSON body, a 2xx response
\* whose body is not JSON, a response with an error status, a timeout, a
\* connection error.
FetchOutcomes == {"ok", "not_json", "status", "timeout", "connect"}

\* Python's None.
None == <<"None">>

\* response.text / response.json() of a good response to a GET of url.
Body(mode, url) == <<IF mode = "json" THEN "json of" ELSE "text of", url>>

\* httpx.HTTPError covers HTTPStatusError (raise_for_status), the timeouts
\* and the connection errors.
IsHTTPError(outcome) == outcome \in {"status", "timeout", "connect"}

\* WebScraper.fetch (mode "html") and fetch_json (mode "json"): the body, or
\* None for an httpx.HTTPError; response.json() of a body that is not JSON
\* raises a JSONDecodeError, which is not an httpx.HTTPError and leaves
\* fetch_json.
Fetch(mode, url, outcome) ==
    IF IsHTTPError(outcome) THEN [raised |-> FALSE, value |-> None]
    ELSE IF mode = "json" /\ outcome = "not_json" THEN [raised |-> TRUE, value |-> None]
    ELSE [raised |-> FALSE, value |-> Body(mode, url)]

\* A task of the batch before it has started.
NewTask == [pc |-> "pending", value |-> None]

BatchIdle ==
    [pc |-> "idle", mode |-> "html", urls |-> <<>>, max_concurrent |-> 1,
     sem |-> 1, tasks |-> <<>>, results |-> <<>>]

BatchInitialHistory ==
    [doneOrder |-> <<>>,   \* the positions of the tasks in order of completion
     fetched   |-> <<>>,   \* per position, what fetch / fetch_json gave ("raise"
                           \* in a one-element sequence when it raised)
     outcomes  |-> <<>>,   \* per position, what the GET came to
     maxHeld   |-> 0]      \* the most slots held at the same time

\* No AsyncScraper in use (the state of the batch during the other runs).
BatchInit == batch = BatchIdle /\ bh = BatchInitialHistory

\* The tasks holding a slot of the semaphore: in flight, or in the delay
\* that follows the request.
Holding == {i \in DOMAIN batch.tasks : batch.tasks[i].pc \in {"fetching", "delay"}}

\* The requests in flight.
InFlight == {i \in DOMAIN batch.tasks : batch.tasks[i].pc = "fetching"}

\* AsyncScraper.__init__ with max_concurrent = mc, then fetch_all(us) or
\* fetch_all_json(us) up to the call of gather: one coroutine per URL, in
\* the order of the list.
BatchStart(mode, us, mc) ==
    /\ batch.pc = "idle"
    /\ batch' = [pc |-> "running", mode |-> mode, urls |-> us,
                 max_concurrent |-> mc, sem |-> mc,
                 tasks |-> [i \in DOMAIN us |-> NewTask], results |-> <<>>]
    /\ bh' = [bh EXCEPT !.fetched = [i \in DOMAIN us |-> <<"pending">>],
                        !.outcomes = [i \in DOMAIN us |-> "pending"]]
    /\ UNCHANGED nonBatchVars

\* async with self.semaphore: the task of position i takes a slot.
TaskEnter(i) ==
    /\ i \in DOMAIN batch.tasks
    /\ batch.tasks[i].pc = "pending"
    /\ batch.sem > 0
    /\ batch' = [batch EXCEPT !.sem = @ - 1, !.tasks[i].pc = "fetching"]
    /\ bh' = [bh EXCEPT !.maxHeld = IF Cardinality(Holding) + 1 > @
                                    THEN Cardinality(Holding) + 1 ELSE @]
    /\ UNCHANGED nonBatchVars

\* await self.fetch(url) / self.fetch_json(url) is over: with a value the
\* task goes on to the delay; an exception leaves the async with block,
\* which gives the slot back, and ends the task.
TaskFetch(i, outcome) ==
    /\ i \in DOMAIN batch.tasks
    /\ batch.tasks[i].pc = "fetching"
    /\ LET r == Fetch(batch.mode, batch.urls[i], outcome)
       IN  IF r.raised
           THEN /\ batch' = [batch EXCEPT !.sem = @ + 1, !.tasks[i].pc = "failed"]
                /\ bh' = [bh EXCEPT !.fetched[i] = <<"raise">>,
                                    !.outcomes[i] = outcome,
                                    !.doneOrder = Append(@, i)]
           ELSE /\ batch' = [batch EXCEPT !.tasks[i] = [pc |-> "delay", value |-> r.value]]
                /\ bh' = [bh EXCEPT !.fetched[i] = r.value, !.outcomes[i] = outcome]
    /\ UNCHANGED nonBatchVars

\* await asyncio.sleep(self.delay) is over: the task leaves the async with
\* block, which gives the slot back, and returns its result.
TaskFinish(i) ==
    /\ i \in DOMAIN batch.tasks
    /\ batch.tasks[i].pc = "delay"
    /\ batch' = [batch EXCEPT !.sem = @ + 1, !.tasks[i].pc = "done"]
    /\ bh' = [bh EXCEPT !.doneOrder = Append(@, i)]
    /\ UNCHANGED nonBatchVars

\* Mutant of GatherResults: the results in order of completion.
GatherResultsAsCompleted(ts, order) == [i \in DOMAIN ts |-> ts[order[i]].value]

\* asyncio.gather(*tasks): the results of the tasks in the order of the
\* awaitables, whatever the order in which they completed.
GatherResults(ts, order) == [i \in DOMAIN ts |-> ts[i].value]

\* gather returns once every task has returned; the batch call returns its
\* list.
BatchReturn ==
    /\ batch.pc = "running"
    /\ \A i \in DOMAIN batch.tasks : batch.tasks[i].pc = "done"
    /\ batch' = [batch EXCEPT !.pc = "returned",
                              !.results = GatherResults(batch.tasks, bh.doneOrder)]
    /\ UNCHANGED bh
    /\ UNCHANGED nonBatchVars

\* gather propagates the first exception of a task to the batch call at
\* once; the other tasks are not cancelled and run on.
BatchRaise ==
    /\ batch.pc = "running"
    /\ \E i \in DOMAIN batch.tasks : batch.tasks[i].pc = "failed"
    /\ batch' = [batch EXCEPT !.pc = "raised"]
    /\ UNCHANGED bh
    /\ UNCHANGED nonBatchVars

BatchNext ==
    \/ \E mode \in {"html", "json"}, us \in SeqsUpTo(Urls, MaxUrls),
          mc \in 1..MaxConcurrent : BatchStart(mode, us, mc)
    \/ \E i \in 1..MaxUrls : TaskEnter(i)
    \/ \E i \in 1..MaxUrls, outcome \in FetchOutcomes : TaskFetch(i, outcome)
    \/ \E i \in 1..MaxUrls : TaskFinish(i)
    \/ BatchReturn
    \/ BatchRaise

\* ------------------------------------------- SessionScraper and its callers

\* A dict without entries: {} . Dicts are functions from their keys.
EmptyDict == <<>>

\* d[k] = v
Put(d, k, v) == [x \in DOMAIN d \cup {k} |-> IF x = k THEN v ELSE d[x]]

\* What get_login_form_fields returns when it returns {}: no "action", no
\* "hidden_fields" and no "fields" member.
Empty ==
    [action |-> NoKey,
     hidden_fields |-> [present |-> FALSE, items |-> EmptyDict],
     fields |-> [present |-> FALSE, items |-> EmptyDict]]

\* The caller's form_info before get_login_form_fields has returned.
NoFormInfo == [Empty EXCEPT !.action = "unset"]

\* An input element: its name, type and value attributes, NoKey for an
\* attribute the element does not have.
Inputs ==
    [name : {NoKey, "", "csrf", "j_username"}, type : {NoKey, "hidden", "text"},
     value : {NoKey, "v1"}]

\* The hidden CSRF input of a login form.
CsrfInput == [name |-> "csrf", type |-> "hidden", value |-> "v1"]

\* A page: the GET failed (get returned None), a page without a form, or a
\* page whose first form has the given action attribute and inputs.
Page(kind, action, inputs) == [kind |-> kind, action |-> action, inputs |-> inputs]

\* The login pages of the callers' runs: a failed GET, a page without a form,
\* a form with or without an action attribute and a hidden input.
LoginPages ==
    {Page("none", NoKey, <<>>), Page("noform", NoKey, <<>>)}
    \cup {Page("form", a, inputs) :
              a \in {NoKey, "login.do"}, inputs \in {<<>>, <<CsrfInput>>}}

\* Every login page of the model: any form of up to MaxInputs inputs.
FormPages ==
    {Page("none", NoKey, <<>>), Page("noform", NoKey, <<>>)}
    \cup {Page("form", a, inputs) :
              a \in {NoKey, "login.do"}, inputs \in SeqsUpTo(Inputs, MaxInputs)}

\* inp.get("name") is missing or empty: the input is skipped (lines 273-275).
Nameless(inp) == inp.name \in {NoKey, ""}

\* inp.get("type", "text") and inp.get("value", ""), lines 277-278.
TypeOf(inp) == IF inp.type = NoKey THEN "text" ELSE inp.type
ValueOf(inp) == IF inp.value = NoKey THEN "" ELSE inp.value

\* Mutant of IsHidden: no input is taken for a hidden one.
IsHiddenNever(inp) == FALSE

\* input_type == "hidden", line 280.
IsHidden(inp) == TypeOf(inp) = "hidden"

\* The loop of lines 272-287 over the inputs of the form, from input i on:
\* a named input is stored under its name, in hidden_fields when its type
\* is hidden and in fields otherwise, replacing an entry of that name.
RECURSIVE CollectInputs(_, _, _)
CollectInputs(inputs, i, acc) ==
    IF i > Len(inputs) THEN acc
    ELSE LET inp == inputs[i]
             nxt == IF Nameless(inp) THEN acc
                    ELSE IF IsHidden(inp)
                    THEN [acc EXCEPT !.hidden_fields.items = Put(@, inp.name, ValueOf(inp))]
                    ELSE [acc EXCEPT !.fields.items =
                              Put(@, inp.name, [type |-> TypeOf(inp), value |-> ValueOf(inp)])]
         IN  CollectInputs(inputs, i + 1, nxt)

\* SessionScraper.get_login_form_fields, lines 255-290: {} for a failed fetch
\* or a page without a form; otherwise the form's action ("" when the
\* attribute is missing), its hidden inputs and its other inputs.
GetLoginFormFields(page) ==
    IF page.kind \in {"none", "noform"} THEN Empty
    ELSE CollectInputs(page.inputs, 1,
             [action |-> IF page.action = NoKey THEN "" ELSE page.action,
              hidden_fields |-> [present |-> TRUE, items |-> EmptyDict],
              fields |-> [present |-> TRUE, items |-> EmptyDict]])

\* The code using a SessionScraper to log in: do_scrape of app.py and
\* scrape_t18 of scrape_t18.py.
Callers == {"do_scrape", "scrape_t18"}

\* Mutant of LoginPath: the form's action is used as it is.
LoginPathNoFallback(caller, fi) == fi.action

\* The login_path argument: form_info.get("action") or "j_security_check" in
\* do_scrape (app.py line 43), form_info.get("action", "default.do") in
\* scrape_t18 (scrape_t18.py line 38).
LoginPath(caller, fi) ==
    IF caller = "do_scrape"
    THEN IF fi.action \in {NoKey, ""} THEN "j_security_check" ELSE fi.action
    ELSE IF fi.action = NoKey THEN "default.do" ELSE fi.action

\* form_info.get("hidden_fields", {})
ExtraFields(fi) == IF fi.hidden_fields.present THEN fi.hidden_fields.items ELSE EmptyDict

\* The arguments of the login call of both callers.
LoginArgs(caller, fi) ==
    [login_path |-> LoginPath(caller, fi),
     username_field |-> "j_username",
     password_field |-> "j_password",
     extra_fields |-> ExtraFields(fi)]

\* SessionScraper.login, lines 159-164: the names of the form data posted.
FormDataKeys(args) ==
    {args.username_field, args.password_field} \cup DOMAIN args.extra_fields

\* Mutant of SessionRequest: a typed error per kind of failure.
SessionRequestTyped(path, outcome) ==
    IF outcome = "timeout" THEN <<"Timeout">>
    ELSE IF outcome = "status" THEN <<"HTTPError", "404">>
    ELSE IF outcome = "connect" THEN <<"ConnectError">>
    ELSE Body("html", path)

\* SessionScraper.get / post, lines 54-60 and 77-83: response.text, or None
\* for any httpx.HTTPError (error status, timeout, connection error).
SessionRequest(path, outcome) ==
    IF IsHTTPError(outcome) THEN None ELSE Body("html", path)

\* SessionScraper._get_client, lines 34-41: the client to use, a new one when
\* the scraper holds none. Clients are numbered as they are constructed; 0
\* stands for None.
GetClient == IF sess.client = 0 THEN sess.made + 1 ELSE sess.client

\* The scraper after a request went through _get_client.
WithClient == [sess EXCEPT !.client = GetClient,
                           !.made = IF sess.client = 0 THEN @ + 1 ELSE @]

Unseen == <<"unseen">>

SessInitialHistory ==
    [log     |-> <<>>,     \* the calls made, with the client each request used
     results |-> [o \in FetchOutcomes |-> Unseen],
                           \* per outcome of a request, what get / post returned
     page    |-> "unset",  \* the kind of the login page last fetched
     args    |-> <<>>]     \* the login calls: who called, the kind of login
                           \* page the form was read from, the arguments

\* SessionScraper.__init__, lines 29-30, no call made yet.
SessInit ==
    /\ sess = [client |-> 0, made |-> 0, logged_in |-> FALSE,
               caller |-> "none", form_info |-> NoFormInfo]
    /\ sh = SessInitialHistory

CanCall == Len(sh.log) < MaxOps

\* scraper.get(path) / scraper.post(path, data).
SessRequestCall(method, outcome) ==
    /\ CanCall
    /\ sess' = WithClient
    /\ sh' = [sh EXCEPT !.log = Append(@, [op |-> method, client |-> GetClient]),
                        !.results[outcome] = SessionRequest("default.do", outcome)]
    /\ UNCHANGED nonSessVars

\* form_info = await scraper.get_login_form_fields("default.do"), app.py line
\* 36 and scrape_t18.py line 26.
SessGetForm(caller, page) ==
    /\ CanCall
    /\ sess' = [WithClient EXCEPT !.caller = caller,
                                  !.form_info = GetLoginFormFields(page)]
    /\ sh' = [sh EXCEPT !.log = Append(@, [op |-> "get", client |-> GetClient]),
                        !.page = page.kind]
    /\ UNCHANGED nonSessVars

\* The login call of the caller that fetched the form, app.py lines 40-49 and
\* scrape_t18.py lines 34-44, with SessionScraper.login: the form data is
\* posted to login_path; logged_in is set when the answer shows a login.
SessLoginCall(resp) ==
    /\ CanCall
    /\ sess.form_info # NoFormInfo
    /\ sess' = [WithClient EXCEPT !.logged_in = (@ \/ SessionLogin(resp))]
    /\ sh' = [sh EXCEPT !.log = Append(@, [op |-> "post", client |-> GetClient]),
                        !.args = Append(@, [caller |-> sess.caller, page |-> sh.page,
                                            args |-> LoginArgs(sess.caller, sess.form_info)])]
    /\ UNCHANGED nonSessVars

\* SessionScraper.close, lines 292-296: a held client is closed and dropped;
\* when aclose() raises the client stays. logged_in is left as it is.
SessClose(raises) ==
    /\ CanCall
    /\ raises => sess.client # 0
    /\ sess' = [sess EXCEPT !.client = IF raises THEN @ ELSE 0]
    /\ sh' = [sh EXCEPT !.log = Append(@, [op |-> IF raises THEN "close_raised" ELSE "close",
                                             client |-> sess.client])]
    /\ UNCHANGED nonSessVars

SessNext ==
    \/ \E method \in {"get", "post"}, outcome \in FetchOutcomes :
          SessRequestCall(method, outcome)
    \/ \E caller \in Callers, page \in LoginPages : SessGetForm(caller, page)
    \/ \E resp \in LoginResponses : SessLoginCall(resp)
    \/ \E raises \in BOOLEAN : SessClose(raises)

\* ------------------------------------------------------------ authentication
\* The two ways to log in: the form of the login page is read and its data
\* posted (SessionScraper), or a browser is driven (ETSLinkScraper).

\* Mutant of FormData: the credentials replace a hidden field of their name.
FormDataCredentialsLast(uf, pf, u, p, extra) == (pf :> p) @@ (uf :> u) @@ extra

\* Mutant of FormData: the secret is posted under both field names.
FormDataSecretTwice(uf, pf, u, p, extra) == extra @@ (pf :> p) @@ (uf :> p)

\* SessionScraper.login, lines 159-164 (login_with_details, lines 205-210):
\* form_data = {username_field: username, password_field: password}, then
\* form_data.update(extra_fields): an extra field replaces an entry of its
\* name.
FormData(uf, pf, u, p, extra) == extra @@ (pf :> p) @@ (uf :> u)

\* The credentials a caller may supply.
Identifiers == {"alice", "bob"}
Secrets == {"s3cret"}

\* The login method called.
LoginVariants == {"login", "login_with_details"}

\* What the login call returned: True / {"success": True} or not.
LoginSucceeded(variant, resp) ==
    IF variant = "login" THEN SessionLogin(resp) ELSE LoginWithDetails(resp).success

AuthInitialHistory ==
    [page     |-> Page("none", NoKey, <<>>),  \* the login page fetched
     variant  |-> "none",     \* the login method called last
     username |-> "",         \* the credentials passed to it
     password |-> "",
     args     |-> LoginArgs("do_scrape", Empty),  \* its other arguments
     resp     |-> CHOOSE r \in LoginResponses : ~r.body,  \* the answer to its POST
     obs      |-> CHOOSE o \in LoginObs : TRUE,  \* what the browser showed
     before   |-> FALSE]      \* logged_in when it was called

\* A scraper just constructed, nothing fetched or posted yet.
AuthInit ==
    /\ au = [pc |-> "start", caller |-> "none", form_info |-> NoFormInfo,
             form_data |-> EmptyDict, posted_to |-> NoKey,
             ok |-> FALSE, error |-> NoKey, logins |-> 0, logged_in |-> FALSE]
    /\ auh = AuthInitialHistory

\* form_info = await scraper.get_login_form_fields("default.do") for any
\* login page.
AuthResolve(caller, page) ==
    /\ au.pc = "start"
    /\ au' = [au EXCEPT !.pc = "resolved", !.caller = caller,
                        !.form_info = GetLoginFormFields(page)]
    /\ auh' = [auh EXCEPT !.page = page]
    /\ UNCHANGED nonAuthVars

\* The caller's login call with the form it resolved, by login or by
\* login_with_details: the form data is built and posted to login_path, the
\* answer classified, logged_in set on success.
AuthFormLogin(variant, u, p, resp) ==
    /\ au.pc \in {"resolved", "posted"}
    /\ au.logins < MaxLogins
    /\ LET args == LoginArgs(au.caller, au.form_info)
           ok   == LoginSucceeded(variant, resp)
       IN  /\ au' = [au EXCEPT
                  !.pc = "posted",
                  !.form_data = FormData(args.username_field, args.password_field,
                                         u, p, args.extra_fields),
                  !.posted_to = args.login_path,
                  !.ok = ok,
                  !.error = IF variant = "login" THEN NoKey
                            ELSE LoginWithDetails(resp).error,
                  !.logins = @ + 1,
                  !.logged_in = (@ \/ ok)]
           /\ auh' = [auh EXCEPT !.variant = variant, !.username = u, !.password = p,
                                 !.args = args, !.resp = resp,
                                 !.before = au.logged_in]
    /\ UNCHANGED nonAuthVars

\* ETSLinkScraper.login when the browser gets as far as the checks of lines
\* 149-193 and shows obs there.
AuthScriptedLogin(obs) ==
    /\ au.pc = "start"
    /\ au' = [au EXCEPT !.pc = "scripted",
                        !.ok = LoginClassify(obs).ok,
                        !.error = IF LoginClassify(obs).err = <<>> THEN ""
                                  ELSE LoginClassify(obs).err[1],
                        !.logins = @ + 1,
                        !.logged_in = LoginClassify(obs).ok]
    /\ auh' = [auh EXCEPT !.variant = "scripted", !.obs = obs]
    /\ UNCHANGED nonAuthVars

\* A hidden input that has the name of the username field.
CollidingInput == [name |-> "j_username", type |-> "hidden", value |-> "v1"]

\* The login pages of the authentications: those of the callers' runs, and a
\* form with a hidden input of the name of the username field.
AuthPages == LoginPages \cup {Page("form", "login.do", <<CsrfInput, CollidingInput>>)}

AuthNext ==
    \/ \E caller \in Callers, page \in AuthPages : AuthResolve(caller, page)
    \/ \E variant \in LoginVariants, u \in Identifiers, p \in Secrets,
          resp \in LoginResponses : AuthFormLogin(variant, u, p, resp)
    \/ \E obs \in LoginObs : AuthScriptedLogin(obs)

\* ------------------------------------------------------------- the extraction
\* The two extraction modes taken step by step: scrape_location over the
\* iframes of the page (live DOM), do_scrape over the fetched dashboard
\* (static document); and the rows the three table extractions keep.

\* get_text(strip=True) / innerText.trim(): white space around the text goes.
Strip(t) == IF t = " " THEN "" ELSE t

\* The tr elements of the documents: whether the row has a th cell, and the
\* texts of its td and th cells (nothing, white space, text).
RawRows ==
    {[th |-> FALSE, cells |-> <<>>]}
    \cup [th : BOOLEAN,
          cells : {<<"">>, <<" ">>, <<"", " ">>, <<"A">>, <<" ", "A">>, <<"A", "B">>}]

\* The table elements of the documents.
RawTables == UNION {[1..n -> RawRows] : n \in 0..MaxRows}

\* cells = [td.get_text(strip=True) for td in tr.find_all(["td", "th"])]
Cells(tr) == [k \in DOMAIN tr.cells |-> Strip(tr.cells[k])]

\* any(c for c in cells) / cells.some(c => c)
AnyText(cells) == \E k \in DOMAIN cells : cells[k] # ""

\* No table: what an extraction adds to its list for a table it leaves out.
NoTable == [kept |-> FALSE, headers |-> <<>>, rows |-> <<>>]

\* Mutant of AppRows: every row with a th cell replaces the header.
RECURSIVE AppRowsLastHeader(_, _, _)
AppRowsLastHeader(table, i, acc) ==
    IF i > Len(table) THEN acc
    ELSE LET cells == Cells(table[i])
         IN  AppRowsLastHeader(table, i + 1,
                 IF Len(cells) > 0 /\ AnyText(cells)
                 THEN IF table[i].th
                      THEN [acc EXCEPT !.headers = cells]
                      ELSE [acc EXCEPT !.rows = Append(@, cells)]
                 ELSE acc)

\* do_scrape lines 83-89: the rows of one table; a row with text in a cell is
\* the header when it has a th cell and no header is set, else a data row.
RECURSIVE AppRows(_, _, _)
AppRows(table, i, acc) ==
    IF i > Len(table) THEN acc
    ELSE LET cells == Cells(table[i])
         IN  AppRows(table, i + 1,
                 IF Len(cells) > 0 /\ AnyText(cells)
                 THEN IF acc.headers = <<>> /\ table[i].th
                      THEN [acc EXCEPT !.headers = cells]
                      ELSE [acc EXCEPT !.rows = Append(@, cells)]
                 ELSE acc)

\* do_scrape lines 81-96: the entry of table_data for one table, appended when
\* the table has rows or a header; rowCount is len(rows).
AppTable(table) ==
    LET acc == AppRows(table, 1, NoTable)
    IN  [kept |-> acc.rows # <<>> \/ acc.headers # <<>>,
         headers |-> acc.headers, rows |-> acc.rows, rowCount |-> Len(acc.rows)]

\* scrape_t18 lines 77-80: the rows of one table; every row that has a cell.
RECURSIVE T18Rows(_, _, _)
T18Rows(table, i, acc) ==
    IF i > Len(table) THEN acc
    ELSE LET cells == Cells(table[i])
         IN  T18Rows(table, i + 1,
                 IF Len(cells) > 0
                 THEN [acc EXCEPT !.rows = Append(@, cells)]
                 ELSE acc)

\* scrape_t18 lines 76-82: the entry of table_data for one table, appended when
\* the table has rows. The entry has no header.
T18Table(table) ==
    LET acc == T18Rows(table, 1, NoTable)
    IN  [acc EXCEPT !.kept = acc.rows # <<>>]

\* scrape_location lines 438-451 (in the frame): the rows of one table; a row
\* with text in a cell is the header when it has a th cell and no header is
\* set, else a data row.
RECURSIVE DomRows(_, _, _)
DomRows(table, i, acc) ==
    IF i > Len(table) THEN acc
    ELSE LET cells == Cells(table[i])
         IN  DomRows(table, i + 1,
                 IF Len(cells) > 0 /\ AnyText(cells)
                 THEN IF table[i].th /\ Len(acc.headers) = 0
                      THEN [acc EXCEPT !.headers = cells]
                      ELSE [acc EXCEPT !.rows = Append(@, cells)]
                 ELSE acc)

\* scrape_location lines 435-455: the entry of tables for one table element,
\* pushed when the table has rows.
DomTable(table) ==
    LET acc == DomRows(table, 1, NoTable)
    IN  [acc EXCEPT !.kept = Len(acc.rows) > 0]

\* The places where a table element is turned into rows.
Sites == {"do_scrape", "scrape_t18", "scrape_location"}

\* The extraction of one table at one of the sites.
ExtractTable(site, table) ==
    CASE site = "do_scrape" -> AppTable(table)
      [] site = "scrape_t18" -> T18Table(table)
      [] site = "scrape_location" -> DomTable(table)

\* No table has been extracted.
TableInit == \E t \in RawTables : tb = [table |-> t, site |-> NoKey, out |-> NoTable]

\* The table of the other specifications.
TableIdle == tb = [table |-> <<>>, site |-> NoKey, out |-> NoTable]

\* One of the sites extracts the table.
TableExtract(site) ==
    /\ tb.site = NoKey
    /\ tb' = [tb EXCEPT !.site = site, !.out = ExtractTable(site, tb.table)]
    /\ UNCHANGED <<ex, exh>>
    /\ UNCHANGED nonExtVars

\* The id attribute of an iframe: none, or a name.
FrameIds == {NoKey, "func_frame"}

\* What an iframe turns out to be when the loop of scrape_location reaches
\* it: hidden (skipped), without a content frame, one whose processing raises,
\* one whose evaluate returns nothing, one with grids and tables.
Frames ==
    [id : FrameIds, visible : {FALSE}, out : {"skipped"}, grids : {0}, tables : {0}]
    \cup [id : FrameIds, visible : {TRUE}, out : {"no_frame", "raise", "none"},
          grids : {0}, tables : {0}]
    \cup [id : FrameIds, visible : {TRUE}, out : {"data"},
          grids : 0..MaxTables, tables : 0..MaxTables]

\* iframe_id = await iframe.get_attribute('id') or 'unknown'
IframeId(fr) == IF fr.id = NoKey THEN "unknown" ELSE fr.id

\* page.query_selector_all('iframe')
FrameLists == UNION {[1..n -> Frames] : n \in 0..MaxFrames}

\* The n items (links, tables, grids) found in a source: the document
\* (frame 0) or the iframe at a position of the list; they carry no tag.
Items(frame, n) == [k \in 1..n |-> [frame |-> frame, source_iframe |-> NoKey, id |-> k]]

\* Mutant of Tagged: the items are left without tag.
TaggedNot(items, iframe_id) == items

\* scrape_location lines 465-468: g["source_iframe"] = iframe_id for every
\* grid and table of the frame.
Tagged(items, iframe_id) ==
    [k \in DOMAIN items |-> [items[k] EXCEPT !.source_iframe = iframe_id]]

\* The dashboard do_scrape has fetched: its links and tables.
Documents == [links : 0..1, tables : 0..MaxTables]

\* result of scrape_location, lines 214-221 ("error" is not a key yet).
LiveResult ==
    [data |-> EmptyDict, tables |-> <<>>, links |-> <<>>, grids |-> <<>>, error |-> FALSE]

\* result of do_scrape, lines 23-32, with the number of its error entries.
StaticResult ==
    [success |-> FALSE, errors |-> 0, data |-> [links |-> <<>>, tables |-> <<>>]]

NothingCollected == [links |-> <<>>, tables |-> <<>>, grids |-> <<>>]

ExInitialHistory ==
    [collected |-> NothingCollected,  \* what the extraction had collected
     raisedAt |-> NoKey,              \* the step whose exception ended it
     frameErrors |-> {}]              \* the iframes whose processing raised

\* No extraction has begun.
ExInit ==
    /\ ex = [pc |-> "start", mode |-> NoKey, frames |-> <<>>, i |-> 0,
             doc |-> [links |-> 0, tables |-> 0],
             nav_links |-> <<>>, table_data |-> <<>>, result |-> LiveResult]
    /\ exh = ExInitialHistory

ExtIdle == ExInit /\ TableIdle

\* scrape_location lines 207-221, for a known location of a logged-in scraper:
\* the result is constructed.
LiveStart ==
    /\ ex.pc = "start"
    /\ ex' = [ex EXCEPT !.pc = "x_page", !.mode = "live", !.result = LiveResult]
    /\ UNCHANGED <<exh, tb>>
    /\ UNCHANGED nonExtVars

\* scrape_location lines 229-280: the menu and the tabs are tried and the
\* iframes of the page listed; an exception here is caught at line 491.
LivePage(raises, frames) ==
    /\ ex.pc = "x_page"
    /\ IF raises
       THEN /\ ex' = [ex EXCEPT !.pc = "returned", !.result.error = TRUE]
            /\ exh' = [exh EXCEPT !.raisedAt = "page"]
       ELSE /\ ex' = [ex EXCEPT !.pc = "x_frames", !.frames = frames, !.i = 1]
            /\ UNCHANGED exh
    /\ UNCHANGED tb
    /\ UNCHANGED nonExtVars

\* Mutant of LiveAfterFrame: an exception in a frame ends the extraction.
LiveAfterFrameAbort(fr) == IF fr.out = "raise" THEN "x_except" ELSE "x_frames"

\* scrape_location lines 475-477: an exception in a frame is caught and the
\* loop continues with the next iframe.
LiveAfterFrame(fr) == "x_frames"

\* scrape_location lines 283-477: one iframe of the loop. A hidden iframe and
\* one without content frame are skipped; the grids and tables evaluate()
\* returns are tagged with the iframe and appended to the result.
LiveFrame ==
    /\ ex.pc = "x_frames"
    /\ ex.i <= Len(ex.frames)
    /\ LET fr == ex.frames[ex.i]
           grids == IF fr.out = "data"
                    THEN Tagged(Items(ex.i, fr.grids), IframeId(fr)) ELSE <<>>
           tables == IF fr.out = "data"
                     THEN Tagged(Items(ex.i, fr.tables), IframeId(fr)) ELSE <<>>
       IN  /\ IF LiveAfterFrame(fr) = "x_frames"
              THEN ex' = [ex EXCEPT !.i = @ + 1,
                                    !.result.grids = @ \o grids,
                                    !.result.tables = @ \o tables]
              ELSE ex' = [ex EXCEPT !.pc = "returned", !.result.error = TRUE]
           /\ exh' = [exh EXCEPT
                  !.collected.grids = @ \o grids,
                  !.collected.tables = @ \o tables,
                  !.frameErrors = IF fr.out = "raise" THEN @ \cup {ex.i} ELSE @]
    /\ UNCHANGED tb
    /\ UNCHANGED nonExtVars

\* scrape_location lines 479-494: url, title and totals are recorded and a
\* screenshot taken; an exception here is caught at line 491 and recorded in
\* the result, which is returned.
LiveFinish(raisesAt) ==
    /\ ex.pc = "x_frames"
    /\ ex.i > Len(ex.frames)
    /\ ex' = [ex EXCEPT
           !.pc = "returned",
           !.result.error = raisesAt # "none",
           !.result.data =
               LET url == "url" :> 0
                   counted == url @@ ("title" :> 0)
                                  @@ ("total_grids" :> Len(ex.result.grids))
                                  @@ ("total_tables" :> Len(ex.result.tables))
               IN  CASE raisesAt = "title" -> url
                     [] raisesAt = "screenshot" -> counted
                     [] OTHER -> counted @@ ("screenshot" :> 0)]
    /\ exh' = [exh EXCEPT !.raisedAt = IF raisesAt = "none" THEN @ ELSE raisesAt]
    /\ UNCHANGED tb
    /\ UNCHANGED nonExtVars

\* do_scrape lines 23-32 and 58-63: the result is constructed and the
\* dashboard fetched.
StaticStart(doc) ==
    /\ ex.pc = "start"
    /\ ex' = [ex EXCEPT !.pc = "s_parse", !.mode = "static", !.doc = doc,
                        !.result = StaticResult]
    /\ UNCHANGED <<exh, tb>>
    /\ UNCHANGED nonExtVars

\* do_scrape lines 120-121: the exception of a step is logged; the result is
\* returned as it stands.
StaticExcept(step) ==
    /\ ex' = [ex EXCEPT !.pc = "returned", !.result.errors = @ + 1]
    /\ exh' = [exh EXCEPT !.raisedAt = step]

\* do_scrape lines 64-65: the page is parsed.
StaticParse(raises) ==
    /\ ex.pc = "s_parse"
    /\ IF raises
       THEN StaticExcept("parse")
       ELSE /\ ex' = [ex EXCEPT !.pc = "s_links"]
            /\ UNCHANGED exh
    /\ UNCHANGED tb
    /\ UNCHANGED nonExtVars

\* do_scrape lines 67-75: the links are collected in nav_links.
StaticLinks ==
    /\ ex.pc = "s_links"
    /\ ex' = [ex EXCEPT !.pc = "s_tables", !.nav_links = Items(0, ex.doc.links)]
    /\ exh' = [exh EXCEPT !.collected.links = Items(0, ex.doc.links)]
    /\ UNCHANGED tb
    /\ UNCHANGED nonExtVars

\* do_scrape lines 77-96: the tables are collected in table_data; an exception
\* after n of them ends the loop.
StaticTables(raises, n) ==
    /\ ex.pc = "s_tables"
    /\ n <= ex.doc.tables
    /\ raises \/ n = ex.doc.tables
    /\ exh' = [exh EXCEPT !.collected.tables = Items(0, n),
                          !.raisedAt = IF raises THEN "tables" ELSE @]
    /\ IF raises
       THEN ex' = [ex EXCEPT !.pc = "returned", !.result.errors = @ + 1,
                             !.table_data = Items(0, n)]
       ELSE ex' = [ex EXCEPT !.pc = "s_save", !.table_data = Items(0, n)]
    /\ UNCHANGED tb
    /\ UNCHANGED nonExtVars

\* do_scrape lines 98-118: the data are saved, then the result is marked
\* successful and given the links and tables.
StaticSave(raises) ==
    /\ ex.pc = "s_save"
    /\ IF raises
       THEN StaticExcept("save")
       ELSE /\ ex' = [ex EXCEPT !.pc = "returned", !.result.success = TRUE,
                         !.result.data = [links |-> ex.nav_links,
                                          tables |-> ex.table_data]]
            /\ UNCHANGED exh
    /\ UNCHANGED tb
    /\ UNCHANGED nonExtVars

ExNext ==
    \/ LiveStart
    \/ ex.pc = "x_page" /\ \E raises \in BOOLEAN, frames \in FrameLists : LivePage(raises, frames)
    \/ LiveFrame
    \/ \E raisesAt \in {"none", "title", "screenshot"} : LiveFinish(raisesAt)
    \/ \E doc \in Documents : StaticStart(doc)
    \/ \E raises \in BOOLEAN : StaticParse(raises)
    \/ StaticLinks
    \/ \E raises \in BOOLEAN, n \in 0..MaxTables : StaticTables(raises, n)
    \/ \E raises \in BOOLEAN : StaticSave(raises)

\* --------------------------------------------------------------- the links
\* The navigation links do_scrape and scrape_t18 take from the anchors of the
\* dashboard. A target is a sequence of pieces, cut where the code looks at it
\* (the prefixes it tests, the slashes it strips).

\* The href attributes of the anchors: empty, the three pseudo-schemes, an
\* absolute target, a relative one with and without leading slash.
Hrefs ==
    {<<>>,
     <<"javascript:", "void(0)">>, <<"#", "top">>, <<"mailto:", "a@b.example">>,
     <<"http", "s://other.example/x">>,
     <<"/", "about">>, <<"about">>}

\* soup.select("a[href]"): the text and the target of an anchor.
Anchors == [text : {"", " ", "Home"}, href : Hrefs]

AnchorLists == UNION {[1..n -> Anchors] : n \in 0..MaxAnchors}

\* base_url of both runs (app.py line 17, scrape_t18.py line 17).
BaseUrl == <<"http", "s://t18.tideworks.com/fc-T18">>

\* href.startswith(prefix)
StartsWith(href, prefix) == Len(href) > 0 /\ href[1] = prefix

\* href.lstrip('/')
RECURSIVE LStrip(_)
LStrip(href) == IF StartsWith(href, "/") THEN LStrip(Tail(href)) ELSE href

\* text and href and not href.startswith(("javascript:", "#", "mailto:"))
IsLink(a) ==
    /\ Strip(a.text) # ""
    /\ a.href # <<>>
    /\ ~\E prefix \in {"javascript:", "#", "mailto:"} : StartsWith(a.href, prefix)

\* do_scrape lines 73-74: a target that does not start with "http" is put
\* under the base URL.
AppHref(href) ==
    IF ~StartsWith(href, "http") THEN BaseUrl \o <<"/">> \o LStrip(href) ELSE href

\* do_scrape lines 68-75: nav_links.
RECURSIVE AppLinks(_, _, _)
AppLinks(anchors, i, acc) ==
    IF i > Len(anchors) THEN acc
    ELSE LET a == anchors[i]
         IN  AppLinks(anchors, i + 1,
                 IF IsLink(a)
                 THEN Append(acc, [text |-> Strip(a.text), href |-> AppHref(a.href)])
                 ELSE acc)

\* scrape_t18 lines 62-67: nav_links; the target is appended as it is.
RECURSIVE T18Links(_, _, _)
T18Links(anchors, i, acc) ==
    IF i > Len(anchors) THEN acc
    ELSE LET a == anchors[i]
         IN  T18Links(anchors, i + 1,
                 IF IsLink(a)
                 THEN Append(acc, [text |-> Strip(a.text), href |-> a.href])
                 ELSE acc)

\* The extraction of the links at one of the two sites.
ExtractLinks(site, anchors) ==
    IF site = "do_scrape" THEN AppLinks(anchors, 1, <<>>) ELSE T18Links(anchors, 1, <<>>)

\* No links have been extracted.
LinkInit == \E as \in AnchorLists : lk = [anchors |-> as, site |-> NoKey, out |-> <<>>]

\* The links of the other specifications.
LinkIdle == lk = [anchors |-> <<>>, site |-> NoKey, out |-> <<>>]

\* One of the sites extracts the links.
LinkExtract(site) ==
    /\ lk.site = NoKey
    /\ lk' = [lk EXCEPT !.site = site, !.out = ExtractLinks(site, lk.anchors)]
    /\ UNCHANGED nonLinkVars

\* --------------------------------------------------------------- JSONStorage
\* One JSONStorage and its file. A Python value is [kind, items, map]: None, an
\* int, a list or a tuple of items, a dict from keys to items, a set (which
\* json cannot write). A key is [t, n]: its type and its text.

PyValue(kind, items, map) == [kind |-> kind, items |-> items, map |-> map]

PyNone == PyValue("None", <<>>, EmptyDict)

PyInt(a) == PyValue("int", <<a>>, EmptyDict)

PyList(items) == PyValue("list", items, EmptyDict)

PyDict(map) == PyValue("dict", <<>>, map)

StrKey(n) == [t |-> "str", n |-> n]

IntKey(n) == [t |-> "int", n |-> n]

\* No key: the key of a call that takes none.
NoStoreKey == [t |-> "none", n |-> ""]

\* An object json cannot serialize.
Unserializable == "set()"

\* The items callers append and the values they set.
StoreItems == {"1", "2", Unserializable}

\* The keys callers update.
StoreKeys == {StrKey("a"), StrKey("1"), IntKey("1")}

\* The data callers save.
SavedValues ==
    {PyNone, PyInt("0"), PyInt("1"),
     PyList(<<>>), PyList(<<"1">>), PyValue("tuple", <<"1">>, EmptyDict),
     PyDict(EmptyDict), PyDict(StrKey("a") :> "1"), PyDict(IntKey("1") :> "1"),
     PyValue("set", <<>>, EmptyDict)}

\* bool(value), as the "or" of append and update tests it.
Truthy(v) ==
    CASE v.kind = "None" -> FALSE
      [] v.kind = "int" -> v.items # <<"0">>
      [] v.kind = "dict" -> DOMAIN v.map # {}
      [] OTHER -> v.items # <<>>

\* json.dump raises TypeError for the value.
DumpRaises(v) ==
    \/ v.kind = "set"
    \/ Unserializable \in Range(v.items)
    \/ \E k \in DOMAIN v.map : v.map[k] = Unserializable

\* json.dump(data, f): the document written for a value json can serialize. A
\* tuple is written as an array, a key as its text; of two keys of one text
\* the one inserted last (last) is the one a reader sees.
Dumps(v, last) ==
    CASE v.kind = "None" -> [kind |-> "null", items |-> <<>>, map |-> EmptyDict]
      [] v.kind = "int" -> [kind |-> "number", items |-> v.items, map |-> EmptyDict]
      [] v.kind \in {"list", "tuple"} ->
             [kind |-> "array", items |-> v.items, map |-> EmptyDict]
      [] v.kind = "dict" ->
             [kind |-> "object", items |-> <<>>,
              map |-> [n \in {k.n : k \in DOMAIN v.map} |->
                          IF last \in DOMAIN v.map /\ last.n = n
                          THEN v.map[last]
                          ELSE v.map[CHOOSE k \in DOMAIN v.map : k.n = n]]]

\* json.load(f): the value of a document.
Loads(doc) ==
    CASE doc.kind = "null" -> PyNone
      [] doc.kind = "number" -> PyInt(doc.items[1])
      [] doc.kind = "array" -> PyList(doc.items)
      [] doc.kind = "object" ->
             PyDict([k \in {StrKey(n) : n \in DOMAIN doc.map} |-> doc.map[k.n]])

\* The file: absent, a JSON document, or what a failed json.dump left of it.
NoFile == [state |-> "absent", doc |-> Dumps(PyNone, NoStoreKey)]

Written(doc) == [state |-> "json", doc |-> doc]

Corrupt == [state |-> "corrupt", doc |-> Dumps(PyNone, NoStoreKey)]

\* Mutant of Save: a failed json.dump leaves the file as it was.
SaveKeepingFile(file, v, last) ==
    IF DumpRaises(v)
    THEN [raised |-> "TypeError", file |-> file]
    ELSE [raised |-> NoKey, file |-> Written(Dumps(v, last))]

\* JSONStorage.save: the file is opened for writing, which empties it, and
\* the data dumped to it; [raised, file].
Save(file, v, last) ==
    IF DumpRaises(v)
    THEN [raised |-> "TypeError", file |-> Corrupt]
    ELSE [raised |-> NoKey, file |-> Written(Dumps(v, last))]

\* JSONStorage.load: None without a file, else json.load of it; [raised, value].
Load(file) ==
    CASE file.state = "absent" -> [raised |-> NoKey, value |-> PyNone]
      [] file.state = "corrupt" -> [raised |-> "JSONDecodeError", value |-> PyNone]
      [] OTHER -> [raised |-> NoKey, value |-> Loads(file.doc)]

\* Mutant of AppendData: the item replaces the stored items.
AppendDataReplacing(data, item) == PyList(<<item>>)

\* data.append(item)
AppendData(data, item) == PyList(Append(data.items, item))

\* JSONStorage.append: data = self.load() or []; a value that is no list
\* raises ValueError; the item is appended and the list saved.
StorageAppend(file, item) ==
    LET loaded == Load(file)
        data == IF Truthy(loaded.value) THEN loaded.value ELSE PyList(<<>>)
    IN  IF loaded.raised # NoKey THEN [raised |-> loaded.raised, file |-> file]
        ELSE IF data.kind # "list" THEN [raised |-> "ValueError", file |-> file]
        ELSE Save(file, AppendData(data, item), NoStoreKey)

\* Mutant of UpdateData: the dict is replaced by one of the key alone.
UpdateDataReplacing(data, key, value) == PyDict(key :> value)

\* data[key] = value
UpdateData(data, key, value) == PyDict((key :> value) @@ data.map)

\* JSONStorage.update: data = self.load() or {}; a value that is no dict
\* raises ValueError; the key is set and the dict saved.
StorageUpdate(file, key, value) ==
    LET loaded == Load(file)
        data == IF Truthy(loaded.value) THEN loaded.value ELSE PyDict(EmptyDict)
    IN  IF loaded.raised # NoKey THEN [raised |-> loaded.raised, file |-> file]
        ELSE IF data.kind # "dict" THEN [raised |-> "ValueError", file |-> file]
        ELSE Save(file, UpdateData(data, key, value), key)

StoreInitialHistory ==
    [ops |-> <<>>,      \* the calls made, in order
     before |-> NoFile] \* the file before the last call

\* JSONStorage.__init__ on a path without a file.
StoreInit ==
    /\ st = [file |-> NoFile, raised |-> NoKey, ret |-> PyNone]
    /\ sth = StoreInitialHistory

StoreIdle == StoreInit

\* A call is made, with its arguments; what it raises and returns is kept.
StoreCall(op, res, ret) ==
    /\ Len(sth.ops) < MaxStoreOps
    /\ st' = [file |-> res.file, raised |-> res.raised, ret |-> ret]
    /\ sth' = [ops |-> Append(sth.ops, op), before |-> st.file]
    /\ UNCHANGED nonStoreVars

\* storage.save(data)
StoreSave(v) ==
    StoreCall([op |-> "save", data |-> v, key |-> NoStoreKey], Save(st.file, v, NoStoreKey), PyNone)

\* storage.append(item)
StoreAppend(item) ==
    StoreCall([op |-> "append", data |-> PyInt(item), key |-> NoStoreKey],
              StorageAppend(st.file, item), PyNone)

\* storage.update(key, value)
StoreUpdate(key, value) ==
    StoreCall([op |-> "update", data |-> PyInt(value), key |-> key],
              StorageUpdate(st.file, key, value), PyNone)

\* storage.load()
StoreLoad ==
    StoreCall([op |-> "load", data |-> PyNone, key |-> NoStoreKey],
              [raised |-> Load(st.file).raised, file |-> st.file], Load(st.file).value)

StoreNext ==
    \/ \E v \in SavedValues : StoreSave(v)
    \/ \E item \in StoreItems : StoreAppend(item)
    \/ \E key \in StoreKeys, value \in StoreItems : StoreUpdate(key, value)
    \/ StoreLoad

\* ----------------------------------------------- the selector chains of login
\* ETSLinkScraper.login fills the username, fills the password and clicks the
\* login control, each through a list of candidate selectors tried in order.

username_selectors ==
    <<"input[name=\"PI_LOGIN_ID\"]", "input[id=\"PI_LOGIN_ID\"]",
      "#PI_LOGIN_ID-inputEl", "input[id*=\"LOGIN\"]">>

password_selectors ==
    <<"input[name=\"PI_PASSWORD\"]", "input[id=\"PI_PASSWORD\"]",
      "#PI_PASSWORD-inputEl", "input[type=\"password\"]">>

login_button_selectors ==
    <<"a:has-text(\"Login\")", "span:has-text(\"Login\")", ".x-btn:has-text(\"Login\")",
      "[id*=\"login\"] >> text=Login", "text=Login">>

\* The chains, in the order login runs them.
Chains == <<"username", "password", "login">>

Selectors(chain) ==
    CASE chain = "username" -> username_selectors
      [] chain = "password" -> password_selectors
      [] chain = "login" -> login_button_selectors

\* What trying one candidate comes to: query_selector or is_visible raises,
\* no element, an element that is not visible, a visible element whose fill
\* or click raises, a visible element filled or clicked.
Tries == {"lookup_raises", "missing", "hidden", "action_raises", "acted"}

\* The candidate existed and was visible: fill or click was called on it.
Matched(out) == out \in {"action_raises", "acted"}

\* Mutant of Breaks: the loop goes on after a candidate was acted on.
BreaksNever(out) == FALSE

\* The break of lines 108, 118 and 138: reached when fill or click returned;
\* every exception of the try block continues with the next candidate.
Breaks(out) == out = "acted"

SelInitialHistory ==
    [tried |-> <<>>]   \* what trying each candidate of the chain came to

\* login has not reached the chains.
SelInit ==
    /\ sel = [chain |-> 0, i |-> 1, done |-> FALSE, clicked |-> FALSE,
              enters |-> 0, submitted |-> FALSE]
    /\ selh = SelInitialHistory

SelIdle == SelInit

\* The loop of the current chain has ended: by break, or out of candidates.
ChainEnded ==
    /\ sel.chain \in DOMAIN Chains
    /\ sel.done \/ sel.i > Len(Selectors(Chains[sel.chain]))

\* Lines 88-103, 112-113, 122-132: the next chain begins.
SelBegin ==
    /\ ~sel.submitted
    /\ sel.chain = 0 \/ (ChainEnded /\ sel.chain < Len(Chains))
    /\ sel' = [sel EXCEPT !.chain = @ + 1, !.i = 1, !.done = FALSE]
    /\ selh' = SelInitialHistory
    /\ UNCHANGED nonSelVars

\* Lines 103-110, 113-120, 132-140: one candidate of the chain is tried.
SelTry(out) ==
    /\ sel.chain \in DOMAIN Chains
    /\ ~ChainEnded
    /\ sel' = [sel EXCEPT
           !.i = IF Breaks(out) THEN @ ELSE @ + 1,
           !.done = Breaks(out),
           !.clicked = @ \/ (Chains[sel.chain] = "login" /\ out = "acted")]
    /\ selh' = [selh EXCEPT !.tried = Append(@, out)]
    /\ UNCHANGED nonSelVars

\* Lines 142-144: Enter is pressed when no click was made.
SelFallback ==
    /\ ChainEnded
    /\ sel.chain = Len(Chains)
    /\ ~sel.submitted
    /\ sel' = [sel EXCEPT !.submitted = TRUE,
                          !.enters = IF ~sel.clicked THEN @ + 1 ELSE @]
    /\ UNCHANGED selh
    /\ UNCHANGED nonSelVars

SelNext ==
    \/ SelBegin
    \/ \E out \in Tries : SelTry(out)
    \/ SelFallback

\* ---------------------------------------------------- the use of an ETSLinkScraper
\* The calls a holder of one ETSLinkScraper makes on it, in any order: login,
\* scrape_location, scrape_all_locations, close.

\* What a login call comes to, as far as the scraper's fields go: whether it
\* succeeded and how many of the four resources it had created.
LoginEffects == {[ok |-> o.ok, made |-> o.made] : o \in ETSLogin}

\* ETSLinkScraper.login lines 72-77 and 179, 193: the k resources created
\* replace the fields; logged_in is set by a success and by nothing else.
AfterLogin(s, o) ==
    [s EXCEPT !.logged_in = @ \/ o.ok,
              !.playwright = @ \/ (o.made >= 1),
              !.browser = @ \/ (o.made >= 2),
              !.context = @ \/ (o.made >= 3),
              !.page = @ \/ (o.made >= 4)]

\* The resources of ReleaseOrder a scraper holds.
Held(s) == {r \in Range(ReleaseOrder) : s[r]}

\* ETSLinkScraper.close: the fields after close() when the release of failAt
\* raises ("none": no release raises).
AfterClose(s, failAt) ==
    [s EXCEPT !.page = HeldAfterClose(@, "page", failAt),
              !.context = HeldAfterClose(@, "context", failAt),
              !.browser = HeldAfterClose(@, "browser", failAt),
              !.playwright = HeldAfterClose(@, "playwright", failAt)]

\* scrape_location lines 207-229: the call goes on to the browser (the first
\* wait on the page) when the guard and the lookup of the location pass.
Interacts(loc, li, pg) == li /\ pg /\ KnownLocation(loc)

\* scrape_all_locations line 510: the entry of a code whose scrape_location
\* raised.
RaisedEntry == LocData(NoKey, 0, <<"Not logged in. Call login() first.">>)

\* scrape_all_locations lines 507-510: the entry of one code.
AllEntry(r) == IF r.raised THEN RaisedEntry ELSE r.data

\* scrape_all_locations: the dict of the results, one key for each code of
\* the list; a later occurrence of a code replaces an earlier one.
RECURSIVE ScrapeAllLocations(_, _, _, _, _, _)
ScrapeAllLocations(codes, envs, li, pg, i, results) ==
    IF i > Len(codes) THEN results
    ELSE ScrapeAllLocations(codes, envs, li, pg, i + 1,
             [results EXCEPT ![codes[i]] =
                  AllEntry(ScrapeLocation(codes[i], li, pg, envs[i]))])

\* No call has been made.
NoCall ==
    [op |-> "none", raised |-> FALSE, interacted |-> FALSE, codes |-> {},
     results |-> [c \in AllCodes |-> Absent], held |-> {}, released |-> <<>>]

EsInitialHistory ==
    [last |-> NoCall,     \* the last call and what it did
     prev |-> "none",     \* the call before it ("close" when it returned)
     authed |-> FALSE,    \* a login succeeded and no close() returned since
     calls |-> 0]

\* ETSLinkScraper.__init__
EsInit ==
    /\ ets = InitialScraper
    /\ etsh = EsInitialHistory

EsIdle == EsInit

\* What every call records.
EsRecord(call, authed) ==
    etsh' = [last |-> call,
            prev |-> IF etsh.last.op = "close" /\ ~etsh.last.raised
                     THEN "close" ELSE "other",
            authed |-> authed,
            calls |-> etsh.calls + 1]

\* await scraper.login()
EsLogin(o) ==
    /\ etsh.calls < MaxScraperOps
    /\ ets' = AfterLogin(ets, o)
    /\ EsRecord([NoCall EXCEPT !.op = "login", !.interacted = o.made >= 1],
                etsh.authed \/ o.ok)
    /\ UNCHANGED nonEtsVars

\* await scraper.close()
EsClose(failAt) ==
    /\ etsh.calls < MaxScraperOps
    /\ failAt \in Held(ets) \cup {"none"}
    /\ ets' = AfterClose(ets, failAt)
    /\ EsRecord([NoCall EXCEPT !.op = "close", !.raised = failAt # "none",
                               !.held = Held(ets),
                               !.released = ReleasedBy(Held(ets), failAt)],
                etsh.authed /\ failAt # "none")
    /\ UNCHANGED nonEtsVars

\* await scraper.scrape_location(code)
EsScrapeLocation(loc, env) ==
    /\ etsh.calls < MaxScraperOps
    /\ LET r == ScrapeLocation(loc, ets.logged_in, ets.page, env)
       IN  EsRecord([NoCall EXCEPT !.op = "scrape_location", !.raised = r.raised,
                                   !.interacted = Interacts(loc, ets.logged_in, ets.page),
                                   !.codes = {loc},
                                   !.results[loc] = r.data],
                    etsh.authed)
    /\ UNCHANGED ets
    /\ UNCHANGED nonEtsVars

\* await scraper.scrape_all_locations(codes)
EsScrapeAll(codes, envs) ==
    /\ etsh.calls < MaxScraperOps
    /\ EsRecord([NoCall EXCEPT
                    !.op = "scrape_all_locations",
                    !.interacted = \E i \in DOMAIN codes :
                                       Interacts(codes[i], ets.logged_in, ets.page),
                    !.codes = Range(codes),
                    !.results = ScrapeAllLocations(codes, envs, ets.logged_in, ets.page,
                                                   1, NoCall.results)],
                etsh.authed)
    /\ UNCHANGED ets
    /\ UNCHANGED nonEtsVars

EsNext ==
    \/ \E o \in LoginEffects : EsLogin(o)
    \/ \E failAt \in Range(ReleaseOrder) \cup {"none"} : EsClose(failAt)
    \/ \E loc \in TargetCodes, env \in ExtractEnvs : EsScrapeLocation(loc, env)
    \/ /\ etsh.calls < MaxScraperOps
       /\ \E codes \in SeqsUpTo(TargetCodes, MaxTargets) :
              \E envs \in [DOMAIN codes -> {e \in ExtractEnvs : e.tables = MaxTables}] :
                  EsScrapeAll(codes, envs)

\* -------------------------------------------------------- the orchestrator runs

Init == OrchInit /\ RLIdle /\ BatchInit /\ SessInit /\ AuthInit /\ EsIdle /\ SelIdle /\ StoreIdle /\ LinkIdle /\ ExtIdle

Next == EtsNext \/ T18Next

Spec == Init /\ [][Next]_vars

\* ---------------------------------------------------- the limiter and its callers

InitRL == OrchInit /\ RLInit /\ BatchInit /\ SessInit /\ AuthInit /\ EsIdle /\ SelIdle /\ StoreIdle /\ LinkIdle /\ ExtIdle

NextRL == RLNext

SpecRL == InitRL /\ [][NextRL]_vars

\* ------------------------------------------ a finite number of acquire() calls
\* Every caller calls acquire() once. The clock runs freely up to MaxTime and
\* after that for as long as a sleeping caller still waits for its wake-up
\* time, so that no wait is cut short by the end of the clock. The limiter
\* has a positive rate and a burst of at least one token: a limiter whose
\* bucket cannot hold a token keeps its callers asleep for ever.

InitRLLive == InitRL /\ rate > 0 /\ burst >= 1

\* The monotonic clock advances past MaxTime while a sleeper waits for it.
RLTickForSleeper ==
    /\ now >= MaxTime
    /\ \E t \in RLTasks : tasks[t].pc = "sleep" /\ tasks[t].wake > now
    /\ now' = now + 1
    /\ rlh' = [rlh EXCEPT !.step = "tick"]
    /\ UNCHANGED <<rate, scale, burst, tokens, last_update, lock, tasks>>
    /\ UNCHANGED nonRLVars

\* A task that has not called acquire() yet calls it.
RLCallOnce(t) ==
    /\ tasks[t].pc = "idle"
    /\ RLCall(t)

NextRLLive ==
    \/ RLTick
    \/ RLTickForSleeper
    \/ \E t \in RLTasks : RLCallOnce(t)
    \/ \E t \in RLTasks : RLLock(t)
    \/ \E t \in RLTasks : RLAttempt(t)
    \/ \E t \in RLTasks : RLWake(t)

\* Time advances, and the event loop runs every task that can run: a caller
\* waiting for a free lock gets it, a caller in the loop makes its next pass,
\* a sleeper whose time has come wakes up.
FairRL ==
    /\ WF_vars(RLTick \/ RLTickForSleeper)
    /\ \A t \in RLTasks :
          WF_vars(RLLock(t)) /\ WF_vars(RLAttempt(t)) /\ WF_vars(RLWake(t))

SpecRLLive == InitRLLive /\ [][NextRLLive]_vars /\ FairRL

\* ----------------------------------------------------------- the batch fetches

InitBatch == OrchInit /\ RLIdle /\ BatchInit /\ SessInit /\ AuthInit /\ EsIdle /\ SelIdle /\ StoreIdle /\ LinkIdle /\ ExtIdle

NextBatch == BatchNext

SpecBatch == InitBatch /\ [][NextBatch]_vars

\* ------------------------------------------------- the use of a SessionScraper

InitSession == OrchInit /\ RLIdle /\ BatchInit /\ SessInit /\ AuthInit /\ EsIdle /\ SelIdle /\ StoreIdle /\ LinkIdle /\ ExtIdle

NextSession == SessNext

SpecSession == InitSession /\ [][NextSession]_vars

\* ------------------------------------------------------------ one authentication

InitAuth == OrchInit /\ RLIdle /\ BatchInit /\ SessInit /\ AuthInit /\ EsIdle /\ SelIdle /\ StoreIdle /\ LinkIdle /\ ExtIdle

NextAuth == AuthNext

SpecAuth == InitAuth /\ [][NextAuth]_vars

\* ------------------------------------------------- the reading of a login form
\* get_login_form_fields applied to every login page of the model.

NextResolve ==
    /\ au.pc = "start"
    /\ \E caller \in Callers, page \in FormPages : AuthResolve(caller, page)

SpecResolve == InitAuth /\ [][NextResolve]_vars

\* ------------------------------------------------------------- one extraction

InitExtract == OrchInit /\ RLIdle /\ BatchInit /\ SessInit /\ AuthInit /\ EsIdle /\ SelIdle /\ StoreIdle /\ LinkIdle /\ ExtIdle

NextExtract == ExNext

SpecExtract == InitExtract /\ [][NextExtract]_vars

\* ------------------------------------------------- the extraction of one table

InitTable ==
    OrchInit /\ RLIdle /\ BatchInit /\ SessInit /\ AuthInit /\ EsIdle /\ SelIdle /\ StoreIdle /\ LinkIdle /\ ExInit /\ TableInit

NextTable == \E site \in Sites : TableExtract(site)

SpecTable == InitTable /\ [][NextTable]_vars

\* --------------------------------------------------- the extraction of the links

InitLinks == OrchInit /\ RLIdle /\ BatchInit /\ SessInit /\ AuthInit /\ EsIdle /\ SelIdle /\ StoreIdle /\ LinkInit /\ ExtIdle

NextLinks == \E site \in {"do_scrape", "scrape_t18"} : LinkExtract(site)

SpecLinks == InitLinks /\ [][NextLinks]_vars

\* ------------------------------------------------------- the use of a JSONStorage

InitStore ==
    OrchInit /\ RLIdle /\ BatchInit /\ SessInit /\ AuthInit /\ EsIdle /\ SelIdle /\ StoreInit /\ LinkIdle /\ ExtIdle

NextStore == StoreNext

SpecStore == InitStore /\ [][NextStore]_vars

\* ----------------------------------------------- the selector chains of a login

InitSelect ==
    OrchInit /\ RLIdle /\ BatchInit /\ SessInit /\ AuthInit /\ EsIdle /\ SelInit /\ StoreIdle /\ LinkIdle /\ ExtIdle

NextSelect == SelNext

SpecSelect == InitSelect /\ [][NextSelect]_vars

\* ---------------------------------------------------- the use of an ETSLinkScraper

InitScraper ==
    OrchInit /\ RLIdle /\ BatchInit /\ SessInit /\ AuthInit /\ EsInit /\ SelIdle /\ StoreIdle /\ LinkIdle /\ ExtIdle

NextScraper == EsNext

SpecScraper == InitScraper /\ [][NextScraper]_vars

\* ================================================= properties of the runs

\* The run has returned its result to the route.
Returned == pc = "done"

\* The run is over: it returned, or close() raised out of the finally block.
Ended == pc \in {"done", "raised"}

ErrorEntries == {i \in DOMAIN result.logs : result.logs[i].type = "error"}

\* C1: a run whose login reports failure stops at once: it goes straight to
\* the cleanup, never calls scrape_location or fetches the dashboard, has
\* appended exactly one error entry (its last entry), and its result has
\* success = False.
C1_LoginFailureEndsRun ==
    h.loginRes = "fail" =>
        /\ pc \in {"e_close", "t_close", "done", "raised"}
        /\ h.extractCalls = 0
        /\ ~result.success
        /\ Cardinality(ErrorEntries) = 1
        /\ Last(result.logs).type = "error"

\* An ETSLink run that launched the browser, failed to log in and returned.
C1_Witness ==
    /\ Returned /\ entry = "ets" /\ h.loginRes = "fail" /\ h.net
    /\ ~result.success /\ Cardinality(ErrorEntries) = 1

\* C2 (as claimed): when a run is over, close() has been called and no
\* resource is held any more.
C2_CloseReleasesEverything ==
    Ended =>
        /\ h.closeCalls = 1
        /\ \A r \in {"playwright", "browser", "context", "page", "client"} : ~scraper[r]

\* The last position of a target in the list of targets.
IsLastOccurrence(i) == \A j \in DOMAIN locations : j > i => locations[j] # locations[i]

\* C3: after a successful login every requested target has been extracted
\* and has an entry in result["locations"]; the entry of a target carries an
\* error exactly when its (last) extraction failed or its code is unknown,
\* and otherwise is the record of that extraction; no other key has an entry.
C3_FailedTargetRecordedLoopGoesOn ==
    (entry = "ets" /\ h.loginRes = "ok" /\ pc \in {"e_save", "e_close", "done", "raised"}) =>
        /\ Len(h.attempts) = Len(locations)
        /\ \A i \in DOMAIN locations :
              LET loc == locations[i]
                  d   == result.locations[loc]
              IN  /\ d # Absent
                  /\ IsLastOccurrence(i) =>
                        /\ HasError(d) <=> (~KnownLocation(loc) \/ h.attempts[i].fails)
                        /\ ~HasError(d) =>
                              (d.code = Upper(loc) /\ d.tables = h.attempts[i].tables)
        /\ \A c \in AllCodes \ Range(locations) : result.locations[c] = Absent

\* The run over the three known targets in which the second one failed.
C3_Witness ==
    /\ Returned /\ entry = "ets" /\ locations = <<"LAX", "OAK", "TIW">>
    /\ ~HasError(result.locations["LAX"]) /\ result.locations["LAX"] # Absent
    /\ HasError(result.locations["OAK"])
    /\ ~HasError(result.locations["TIW"]) /\ result.locations["TIW"] # Absent

\* C4 (as claimed): a run that logged in and met no exception returns
\* success = True, whatever its extraction gave.
C4_AuthenticatedRunSucceeds ==
    (Returned /\ h.loginRes = "ok" /\ h.excAt = "none") => result.success

\* C4 (amended): in scrape_etslink a run that logged in returns success = True
\* whatever its targets gave, unless saving the results raised; in do_scrape
\* a run that logged in returns success = True exactly when the dashboard
\* fetch did not fail and no exception was caught.
C4_TargetFailureNotFatalFetchFailureFatal ==
    /\ (Returned /\ entry = "ets" /\ h.loginRes = "ok") =>
          (result.success <=> h.excAt = "none")
    /\ (Returned /\ entry = "t18" /\ h.loginRes = "ok") =>
          (result.success <=> (~h.fetchFailed /\ h.excAt = "none"))

\* A successful ETSLink run one of whose targets failed.
C4_Witness ==
    /\ Returned /\ entry = "ets" /\ result.success
    /\ \E c \in AllCodes : HasError(result.locations[c])

\* The positions of the "Scraping loc (i/n)..." entries in the log.
StartPositions ==
    {i \in DOMAIN result.logs :
        /\ result.logs[i].type = "info"
        /\ Len(result.logs[i].message) = 7
        /\ result.logs[i].message[1] = "Scraping "}

\* An outcome entry of target loc: "  loc: Found n tables" or "  loc: error".
IsOutcomeOf(e, loc) ==
    /\ e.type \in {"success", "error"}
    /\ Len(e.message) >= 3
    /\ e.message[1] = "  "
    /\ e.message[2] = loc

\* C5: the k-th start entry of the log is the one of the k-th target of the
\* caller's list; it is followed by that target's outcome entry, by which time
\* the target's result is recorded, and the next start entry follows that
\* outcome entry; a finished loop has started every target; without a list
\* from the caller the targets are the known locations in definition order.
C5_TargetsInCallerOrder ==
    (entry = "ets" /\ h.loginRes = "ok") =>
        /\ defaulted => locations = <<"LAX", "OAK", "TIW">>
        /\ \A i \in StartPositions :
              LET k == Cardinality({j \in StartPositions : j <= i})
              IN  /\ k <= Len(locations)
                  /\ result.logs[i].message[2] = locations[k]
                  /\ result.logs[i].message[4] = ToStr(k)
                  /\ i < Len(result.logs) =>
                        /\ IsOutcomeOf(result.logs[i + 1], locations[k])
                        /\ result.locations[locations[k]] # Absent
                        /\ h.extractCalls >= k
                  /\ i = Len(result.logs) => h.extractCalls = k - 1
                  /\ \A j \in StartPositions : j > i => j >= i + 2
                  /\ (k < Len(locations) /\ i + 2 <= Len(result.logs)) =>
                        i + 2 \in StartPositions
        /\ pc \in {"e_save", "e_close", "done", "raised"} =>
              Cardinality(StartPositions) = Len(locations)

\* A finished run over two different targets, not in definition order.
C5_Witness ==
    /\ Returned /\ entry = "ets" /\ result.success
    /\ locations = <<"OAK", "LAX">>
    /\ Cardinality(StartPositions) = 2

\* C6: login is called at most once in a run.
C6_LoginAtMostOnce == h.loginCalls <= 1

\* A T18 run that failed to log in, and returned without a second attempt.
C6_Witness ==
    Returned /\ entry = "t18" /\ h.loginRes = "fail" /\ h.loginCalls = 1

\* The request lacks a credential, or names a target that is no known location.
ConfigError ==
    /\ entry # "none"
    /\ \/ username = ""
       \/ password = ""
       \/ \E i \in DOMAIN locations : ~KnownLocation(locations[i])

\* C7 (as claimed): a request with a configuration error causes no network
\* activity and no login.
C7_ConfigErrorBeforeNetwork == ConfigError => (~h.net /\ h.loginCalls = 0)

\* C7 (amended): a request without a username or a password is rejected by
\* the route before anything else happens: no log entry, no scraper resource,
\* no network activity, no login. An unknown target code is reported only by
\* scrape_location, after a successful login, as an error under its key.
C7_MissingCredentialsBeforeNetwork ==
    /\ (entry # "none" /\ (username = "" \/ password = "")) =>
          /\ pc = "rejected"
          /\ ~h.net /\ h.loginCalls = 0
          /\ result = InitialResult /\ scraper = InitialScraper
    /\ \A c \in AllCodes :
          result.locations[c].error[1] = "Unknown location: " =>
              (~KnownLocation(c) /\ h.loginRes = "ok" /\ h.net)

\* A request with a username and no password, rejected.
C7_Witness ==
    pc = "rejected" /\ entry = "ets" /\ username = "alice" /\ password = ""

\* The state part of C8: severities, and the verdict at the end of the log of
\* a returned run.
C8_LogVerdict ==
    /\ \A i \in DOMAIN result.logs : result.logs[i].type \in {"info", "success", "error"}
    /\ Returned =>
          /\ result.logs # <<>>
          /\ Last(result.logs).type = "success" <=> result.success
          /\ Last(result.logs).type = "error" <=> ~result.success

\* C8: in every state the log has only the three severities and, once the run
\* has returned, ends with the verdict of the run (success exactly when
\* result.success, error exactly when not); and every step leaves the entries
\* already in the log in place, adding at its end only.
C8_LogTrail == [] C8_LogVerdict /\ [][IsPrefix(result.logs, result.logs')]_vars

\* A T18 run that went through and returned.
C8_Witness ==
    Returned /\ entry = "t18" /\ result.success /\ Last(result.logs).type = "success"

\* C9 (as claimed): no log entry contains the username or the password.
C9_NoCredentialInLogs ==
    \A i \in DOMAIN result.logs :
        /\ username \notin Range(result.logs[i].message)
        /\ password \notin Range(result.logs[i].message)

\* ============================================= properties of the RateLimiter

\* C10 (as claimed): the bucket never holds less than nothing nor more than
\* burst, whatever the limiter's configuration.
C10_TokensWithinBucket == 0 <= tokens /\ tokens <= BurstUnits

\* What one step of a caller does to the bucket: a step that refills leaves
\* min(burst, tokens + elapsed * rate), less one token when acquire() returns
\* in that step, which it does only when the refilled bucket held one.
C10_RefillThenConsume ==
    rlh'.step = "attempt" =>
        LET filled   == Min(BurstUnits, tokens + (now - last_update) * rate)
            returns  == Len(rlh'.completions) = Len(rlh.completions) + 1
        IN  /\ last_update' = now
            /\ returns <=> filled >= OneToken
            /\ tokens' = IF returns THEN filled - OneToken ELSE filled

\* C10 (amended): for a limiter with rate >= 0 (and burst >= 0),
\* 0 <= tokens <= burst in every reachable state; for every limiter each
\* refill sets tokens to min(burst, tokens + elapsed * rate), and acquire()
\* returns only by taking exactly one token from a bucket that held one.
C10_BucketInvariant ==
    /\ [](rate >= 0 => C10_TokensWithinBucket)
    /\ [][C10_RefillThenConsume]_vars
    /\ [][rlh'.step # "attempt" =>
             (tokens' = tokens /\ rlh'.completions = rlh.completions)]_vars

\* A limiter of positive rate that let two calls through, the second one
\* after a wait for the refill, and whose bucket is empty again.
C10_Witness ==
    /\ rate = 1 /\ burst = 1 /\ scale = 2
    /\ Len(rlh.completions) = 2
    /\ rlh.completions[2] > rlh.completions[1]
    /\ tokens = 0

\* The callers inside the refill/consume loop of _wait_for_token, asleep in
\* it or not.
InLoop == {t \in RLTasks : tasks[t].pc \in {"loop", "sleep"}}

\* C11: for a limiter with rate > 0 the completions of acquire() are in time
\* order, and any run of k of them, the first at time a and the last at time
\* b, satisfies k <= burst + rate * (b - a) (in token units: k tokens against
\* the burst plus what b - a ticks refill); with burst = 1 two completions
\* in a row are at least one token's refill time (1/rate) apart.
C11_RateBound ==
    rate > 0 =>
        \A i, j \in DOMAIN rlh.completions :
            i <= j =>
                /\ rlh.completions[i] <= rlh.completions[j]
                /\ (j - i + 1) * OneToken
                       <= BurstUnits + rate * (rlh.completions[j] - rlh.completions[i])
                /\ (burst = 1 /\ i < j) =>
                       rlh.completions[j] - rlh.completions[i] >= OneToken

\* A limiter of burst 2 that let the burst through at once and a third call
\* exactly one refill time later, the bound being met with equality.
C11_Witness ==
    /\ rate = 1 /\ burst = 2 /\ scale = 2
    /\ Len(rlh.completions) = 3
    /\ rlh.completions[2] = rlh.completions[1]
    /\ rlh.completions[3] = rlh.completions[1] + 2

\* The lock is held by exactly the caller inside the loop, if any.
C12_OneInLoop ==
    /\ Cardinality(InLoop) <= 1
    /\ \A t \in RLTasks : t \in InLoop <=> lock = t
    /\ lock \in RLTasks \cup {0}

\* A step that writes tokens or last_update is a step of the caller holding
\* the lock, and of no other caller.
C12_WrittenByHolder ==
    (tokens' # tokens \/ last_update' # last_update) =>
        /\ lock \in RLTasks
        /\ tasks[lock].pc = "loop"
        /\ \A t \in RLTasks \ {lock} : tasks'[t] = tasks[t]

\* The holder keeps the lock while it waits for a token and gives it up in
\* the step in which its acquire() ends.
C12_HeldUntilReturn ==
    \A t \in RLTasks :
        /\ (tasks[t].pc = "loop" /\ tasks'[t].pc = "sleep") => lock' = t
        /\ (tasks[t].pc = "sleep" /\ tasks'[t].pc = "loop") => lock' = t
        /\ (t \in InLoop /\ tasks'[t].pc \in {"returned", "raised"}) => lock' = 0
        /\ (lock = t /\ lock' # t) => tasks'[t].pc \in {"returned", "raised"}

\* C12: with any number of concurrent callers at most one is inside the
\* refill/consume loop, and it is the one holding the lock; tokens and
\* last_update are written only in steps of that caller; the lock stays
\* with it across the wait for a token and is released when its acquire()
\* ends.
C12_LockProtectsBucket ==
    /\ [] C12_OneInLoop
    /\ [][C12_WrittenByHolder]_vars
    /\ [][C12_HeldUntilReturn]_vars

\* One caller sleeps in the loop with the lock while another waits for the
\* lock.
C12_Witness ==
    \E t, u \in RLTasks :
        /\ t # u
        /\ tasks[t].pc = "sleep" /\ lock = t /\ tasks[t].wake > now
        /\ tasks[u].pc = "locking"

\* C13 (as claimed): no acquire() call ends in an exception, whatever rate
\* and burst are.
C13_AcquireNeverRaises ==
    /\ rlh.raised = 0
    /\ \A t \in RLTasks : tasks[t].pc # "raised"

\* C14: for a limiter with rate > 0 and burst >= 1, every acquire() call of
\* every one of the concurrent callers eventually returns, provided time
\* advances and the scheduler is fair.
C14_AcquireReturns ==
    \A t \in RLTasks :
        (rate > 0 /\ burst >= 1 /\ tasks[t].pc = "locking")
            ~> (tasks[t].pc = "returned")

\* Every caller has called a limiter of burst 1 and has returned, the last
\* one after the end of the free-running clock.
C14_Witness ==
    /\ rate = 1 /\ burst = 1 /\ scale = MaxScale
    /\ \A t \in RLTasks : tasks[t].pc = "returned"
    /\ Len(rlh.completions) = NumTasks
    /\ Last(rlh.completions) > MaxTime

\* ============================================ properties of the batch fetches

\* The batch call is over: it returned its list, or gather raised.
BatchOver == batch.pc \in {"returned", "raised"}

\* C15 (as claimed): during a batch no more than max_concurrent requests are
\* in flight at the same time, and once the batch call is over every slot of
\* the semaphore has been given back.
C15_SlotsBoundedAndReturned ==
    /\ Cardinality(InFlight) <= batch.max_concurrent
    /\ BatchOver => (Holding = {} /\ batch.sem = batch.max_concurrent)

\* C16: a batch call that returns gives a sequence as long as the list of
\* URLs whose position i holds what the fetch of urls[i] gave (the body of
\* that URL, or None), in whatever order the fetches completed; and
\* fetch_all always returns.
C16_ResultsInCallerOrder ==
    /\ batch.mode = "html" => batch.pc # "raised"
    /\ batch.pc = "returned" =>
          /\ Len(batch.results) = Len(batch.urls)
          /\ \A i \in DOMAIN batch.urls :
                /\ batch.results[i] = bh.fetched[i]
                /\ batch.results[i] = Fetch(batch.mode, batch.urls[i], bh.outcomes[i]).value

\* fetch_all of two different URLs returned; the second fetch completed
\* first, and one of the two failed.
C16_Witness ==
    /\ batch.pc = "returned" /\ batch.mode = "html"
    /\ batch.urls = <<"u1", "u2">>
    /\ bh.doneOrder = <<2, 1>>
    /\ batch.results[1] = None /\ batch.results[2] = Body("html", "u2")

\* C17 (as claimed): no batch call raises, and in the list a batch returns
\* the position of a failed request (error status, timeout, connection
\* error, for fetch_all_json a body that is not JSON) holds None and every
\* other position the body of its URL.
C17_FailedRequestYieldsNone ==
    /\ batch.pc # "raised"
    /\ batch.pc = "returned" =>
          \A i \in DOMAIN batch.urls :
              batch.results[i] =
                  IF \/ IsHTTPError(bh.outcomes[i])
                     \/ (batch.mode = "json" /\ bh.outcomes[i] = "not_json")
                  THEN None
                  ELSE Body(batch.mode, batch.urls[i])

\* ======================================== properties of the SessionScraper

\* The positions of the log at which a request was made.
Requests == {i \in DOMAIN sh.log : sh.log[i].op \in {"get", "post"}}

\* C18 (as claimed): the scraper holds no client before its first request;
\* requests with no close() between them use the same client; and after a
\* close() that returned the scraper holds no client and logged_in is false.
C18_SessionInvalidatedByClose ==
    /\ Requests = {} => sess.client = 0
    /\ \A i, j \in Requests :
          (i < j /\ \A k \in i..j : sh.log[k].op # "close") =>
              sh.log[i].client = sh.log[j].client
    /\ (sh.log # <<>> /\ Last(sh.log).op = "close") =>
          (sess.client = 0 /\ ~sess.logged_in)

C20_EmptyFormFallsBack ==
    /\ sh.page \in {"none", "noform"} => sess.form_info = Empty
    /\ \A i \in DOMAIN sh.args :
          sh.args[i].page \in {"none", "noform"} =>
              /\ sh.args[i].args.login_path =
                     (IF sh.args[i].caller = "do_scrape"
                      THEN "j_security_check" ELSE "default.do")
              /\ sh.args[i].args.username_field = "j_username"
              /\ sh.args[i].args.password_field = "j_password"
              /\ sh.args[i].args.extra_fields = EmptyDict
              /\ FormDataKeys(sh.args[i].args) = {"j_username", "j_password"}

\* scrape_t18 made its login call after get_login_form_fields returned the
\* empty descriptor for a failed fetch.
C20_Witness ==
    /\ Len(sh.args) = 1
    /\ sh.args[1].caller = "scrape_t18"
    /\ sh.args[1].page = "none"
    /\ sh.args[1].args.login_path = "default.do"
    /\ sess.form_info = Empty

\* ============================================ properties of the authentication

\* get_login_form_fields has read a page with a form.
FormRead == au.pc = "resolved" /\ auh.page.kind = "form"

\* The inputs of the form read that have a name.
Named == {i \in DOMAIN auh.page.inputs : auh.page.inputs[i].name \notin {NoKey, ""}}

\* The declared type and value of input i, with the defaults of an input
\* that declares none.
DeclaredType(i) == IF auh.page.inputs[i].type = NoKey THEN "text" ELSE auh.page.inputs[i].type
DeclaredValue(i) == IF auh.page.inputs[i].value = NoKey THEN "" ELSE auh.page.inputs[i].value

HiddenInputs == {i \in Named : DeclaredType(i) = "hidden"}

\* The descriptor's action is the one the form declares ("" for none).
ActionAsDeclared ==
    au.form_info.action = (IF auh.page.action = NoKey THEN "" ELSE auh.page.action)

\* C21 (as claimed): every named input of the form is in exactly one of
\* hidden_fields and fields, in hidden_fields with its value iff its type is
\* hidden and otherwise in fields with its type and value; no other name is
\* in either; the action is the declared one.
C21_EveryInputClassified ==
    FormRead =>
        LET hid == au.form_info.hidden_fields.items
            vis == au.form_info.fields.items
        IN  /\ \A i \in Named :
                  LET n == auh.page.inputs[i].name
                  IN  IF i \in HiddenInputs
                      THEN /\ n \in DOMAIN hid /\ hid[n] = DeclaredValue(i)
                           /\ n \notin DOMAIN vis
                      ELSE /\ n \in DOMAIN vis
                           /\ vis[n] = [type |-> DeclaredType(i), value |-> DeclaredValue(i)]
                           /\ n \notin DOMAIN hid
            /\ DOMAIN hid \cup DOMAIN vis = {auh.page.inputs[i].name : i \in Named}
            /\ ActionAsDeclared

\* Input i is the last one of its name among the inputs of set S.
LastOfName(i, S) ==
    \A j \in S : j > i => auh.page.inputs[j].name # auh.page.inputs[i].name

\* C21 (amended): hidden_fields maps the name of every named hidden input to
\* the value of the last hidden input of that name, fields maps the name of
\* every other named input to the type and value of the last such input of
\* that name, and neither holds any other name; a name carried both by a
\* hidden and by another input is in both. So for a form whose named inputs
\* have different names every input is in exactly one of the two, with its
\* own value. The action is the declared one.
C21_LastInputOfNameClassified ==
    FormRead =>
        LET hid == au.form_info.hidden_fields.items
            vis == au.form_info.fields.items
        IN  /\ DOMAIN hid = {auh.page.inputs[i].name : i \in HiddenInputs}
            /\ DOMAIN vis = {auh.page.inputs[i].name : i \in Named \ HiddenInputs}
            /\ \A i \in HiddenInputs :
                  LastOfName(i, HiddenInputs) =>
                      hid[auh.page.inputs[i].name] = DeclaredValue(i)
            /\ \A i \in Named \ HiddenInputs :
                  LastOfName(i, Named \ HiddenInputs) =>
                      vis[auh.page.inputs[i].name] =
                          [type |-> DeclaredType(i), value |-> DeclaredValue(i)]
            /\ ActionAsDeclared

\* A form with a hidden input and a text input of the same name was read:
\* the name is in both hidden_fields and fields.
C21_Witness ==
    /\ FormRead
    /\ Len(auh.page.inputs) = 2
    /\ auh.page.inputs[1] = CsrfInput
    /\ auh.page.inputs[2] = [name |-> "csrf", type |-> "text", value |-> NoKey]
    /\ au.form_info.hidden_fields.items = ("csrf" :> "v1")
    /\ au.form_info.fields.items = ("csrf" :> [type |-> "text", value |-> ""])

\* A form-submit login has been made.
Posted == au.pc = "posted"

\* The hidden fields of the descriptor the caller resolved.
HiddenOfDescriptor == au.form_info.hidden_fields.items

\* C22: the form data posted by a form-submit login holds every hidden field
\* of the resolved descriptor under its name with its value, whatever the
\* descriptor and the credentials.
C22_HiddenFieldsResubmitted ==
    Posted =>
        \A n \in DOMAIN HiddenOfDescriptor :
            n \in DOMAIN au.form_data /\ au.form_data[n] = HiddenOfDescriptor[n]

\* A login was posted for a form with two hidden inputs, one of them of the
\* name of the username field: both are in the form data with their values.
C22_Witness ==
    /\ Posted
    /\ DOMAIN HiddenOfDescriptor = {"csrf", "j_username"}
    /\ au.form_data["csrf"] = "v1"
    /\ au.form_data["j_username"] = "v1"

\* C23 (as claimed): the form data maps the username field to the supplied
\* identifier and the password field to the supplied secret, for every
\* descriptor.
C23_CredentialsPosted ==
    Posted =>
        /\ au.form_data[auh.args.username_field] = auh.username
        /\ au.form_data[auh.args.password_field] = auh.password

\* C23 (amended): the form data maps the username field to the supplied
\* identifier and the password field to the supplied secret unless the
\* descriptor has a hidden field of that name, whose value is then posted
\* under it in place of the credential; it has no entry besides these two
\* and the hidden fields.
C23_CredentialsPostedUnlessHidden ==
    Posted =>
        LET uf == auh.args.username_field
            pf == auh.args.password_field
        IN  /\ au.form_data[uf] =
                  (IF uf \in DOMAIN HiddenOfDescriptor THEN HiddenOfDescriptor[uf]
                   ELSE auh.username)
            /\ au.form_data[pf] =
                  (IF pf \in DOMAIN HiddenOfDescriptor THEN HiddenOfDescriptor[pf]
                   ELSE auh.password)
            /\ DOMAIN au.form_data = {uf, pf} \cup DOMAIN HiddenOfDescriptor

\* A login was posted for a form with one hidden input of another name: the
\* form data holds the identifier, the secret and the hidden field.
C23_Witness ==
    /\ Posted
    /\ HiddenOfDescriptor = ("csrf" :> "v1")
    /\ au.form_data =
          ("j_username" :> "bob") @@ ("j_password" :> "s3cret") @@ ("csrf" :> "v1")

\* C24: a form-submit login, by login or by login_with_details, whose
\* response page has an input of type password does not succeed, with or
\* without an error element on the page, and leaves logged_in as it was.
C24_PasswordInputMeansFailure ==
    (Posted /\ auh.resp.pwdInput) =>
        /\ ~au.ok
        /\ au.logged_in = auh.before

\* login was answered with a page that has a password input and no error
\* element, after an earlier login that had succeeded: it failed, and
\* logged_in is what the earlier login made it.
C24_Witness ==
    /\ Posted /\ auh.variant = "login"
    /\ auh.resp.pwdInput /\ ~auh.resp.formById
    /\ ~auh.resp.errClass /\ ~auh.resp.errId /\ ~auh.resp.alert
    /\ ~au.ok /\ auh.before /\ au.logged_in

\* C25 (as claimed): a form-submit login, by login or by login_with_details,
\* whose response page has an element of an error class or of an error id
\* fails, and one that succeeds had a response with neither such an element
\* nor a password input.
C25_ErrorElementMeansFailure ==
    Posted =>
        /\ (auh.resp.errClass \/ auh.resp.errId) => ~au.ok
        /\ au.ok => (~auh.resp.errClass /\ ~auh.resp.errId /\ ~auh.resp.pwdInput)

\* The scripted login has been made.
Scripted == au.pc = "scripted"

\* C26 (as claimed): the scripted login succeeds only when the page shows no
\* failure indicator after the submit, no error element and no visible
\* password field, whatever the URL is.
C26_SuccessOnlyWithoutFailureIndicator ==
    (Scripted /\ au.ok) => (auh.obs.errorElem = "none" /\ ~auh.obs.pwdVisible)

\* The outcomes of a login that met a challenge.
ChallengeOutcomes == {"ChallengeRequired", "ChallengeTimeout"}

\* C27 (as claimed): a scripted login that saw a verification input after
\* the submit and whose URL did not reach the authenticated pattern does
\* not succeed, and ends with a challenge outcome, which plain rejection
\* does not give.
C27_UnresolvedChallengeNotSuccess ==
    /\ (Scripted /\ auh.obs.verify /\ ~auh.obs.url) =>
          (~au.ok /\ au.error \in ChallengeOutcomes)
    /\ (Scripted /\ ~auh.obs.verify) => au.error \notin ChallengeOutcomes

\* ------------------------------------------------------------- the extraction

\* A live-DOM extraction has returned after it had listed the iframes.
LiveReturned == ex.mode = "live" /\ ex.pc = "returned" /\ exh.raisedAt # "page"

\* The items of the sequence seq that come from iframe j.
FromFrame(seq, j) ==
    {[frame |-> seq[n].frame, id |-> seq[n].id] : n \in {m \in DOMAIN seq : seq[m].frame = j}}

\* C28: in the live-DOM extraction of one target, an exception raised while one
\* iframe is processed is caught and the loop goes on with the remaining
\* iframes: when the extraction returns, every iframe has been visited and the
\* grids and the tables of every visible iframe that gave data are in the
\* result, tagged with that iframe, whichever other iframes raised.
C28_FrameErrorContained ==
    LiveReturned =>
        /\ ex.i = Len(ex.frames) + 1
        /\ \A j \in DOMAIN ex.frames :
               ex.frames[j].out = "data" =>
                   /\ FromFrame(ex.result.tables, j)
                          = {[frame |-> j, id |-> k] : k \in 1..ex.frames[j].tables}
                   /\ FromFrame(ex.result.grids, j)
                          = {[frame |-> j, id |-> k] : k \in 1..ex.frames[j].grids}

\* A frame raised and a later frame gave a table, which is in the result.
C28_Witness ==
    /\ LiveReturned
    /\ \E k \in exh.frameErrors, j \in DOMAIN ex.frames :
           /\ j > k
           /\ ex.frames[j].out = "data"
           /\ ex.frames[j].tables >= 1
           /\ FromFrame(ex.result.tables, j) # {}

\* C29: in both extraction modes, when an exception ends the extraction
\* part-way, the links, tables and grids collected before it are in the
\* returned result.
C29_PartialDataPreserved ==
    (ex.pc = "returned" /\ exh.raisedAt # NoKey) =>
        IF ex.mode = "live"
        THEN /\ ex.result.tables = exh.collected.tables
             /\ ex.result.grids = exh.collected.grids
             /\ ex.result.links = exh.collected.links
        ELSE /\ ex.result.data.links = exh.collected.links
             /\ ex.result.data.tables = exh.collected.tables

\* Every cell of the row is the empty string (a row without cells included).
BlankRow(r) == \A k \in DOMAIN r : r[k] = ""

\* C30: at every site that extracts a table, a row whose cells are all empty
\* or white space is dropped: no row of the output, and no header, consists
\* of empty strings only.
C30_BlankRowsDropped ==
    tb.site # NoKey =>
        /\ \A n \in DOMAIN tb.out.rows : ~BlankRow(tb.out.rows[n])
        /\ tb.out.headers # <<>> => ~BlankRow(tb.out.headers)

\* do_scrape has extracted the table.
AppExtracted == tb.site = "do_scrape"

\* The rows of the table that have a cell with text, by position.
TextRows == {i \in DOMAIN tb.table : AnyText(Cells(tb.table[i]))}

\* The rows with text that have a header-marked cell.
HeaderRows == {i \in TextRows : tb.table[i].th}

\* The first row with text that has a header-marked cell, 0 when none has.
HeaderRow == IF HeaderRows = {} THEN 0 ELSE CHOOSE i \in HeaderRows : \A j \in HeaderRows : i <= j

\* The positions of the rows with text other than the header row, in document
\* order.
DataRows ==
    SelectSeq([i \in 1..Len(tb.table) |-> i], LAMBDA i : i \in TextRows /\ i # HeaderRow)

LinkAnchors ==
    SelectSeq([i \in 1..Len(lk.anchors) |-> i],
              LAMBDA i : LET a == lk.anchors[i]
                         IN  /\ Strip(a.text) # ""
                             /\ a.href # <<>>
                             /\ a.href[1] \notin {"javascript:", "#", "mailto:"})

\* The target a link gets: an absolute target as it is, a relative one under
\* the base URL, leading slashes removed.
Normalized(href) == IF href[1] = "http" THEN href ELSE BaseUrl \o <<"/">> \o LStrip(href)

\* C32: at both sites the extracted links are the anchors with text whose
\* target is not a javascript:, # or mailto: target, in document order; an
\* absolute target is unchanged and a relative one is rewritten to the base
\* URL, "/" and the target.
C32_LinksNormalized ==
    lk.site # NoKey =>
        lk.out = [n \in 1..Len(LinkAnchors) |->
                     [text |-> Strip(lk.anchors[LinkAnchors[n]].text),
                      href |-> Normalized(lk.anchors[LinkAnchors[n]].href)]]

\* --------------------------------------------------------------- JSONStorage

\* The stored value no load() can read.
Unreadable == PyValue("unreadable", <<>>, EmptyDict)

\* The value as a JSON document holds it: a tuple is a list, a key its text.
AsJSON(v) ==
    CASE v.kind = "tuple" -> PyList(v.items)
      [] v.kind = "dict" ->
             PyDict([k \in {StrKey(j.n) : j \in DOMAIN v.map} |->
                        v.map[CHOOSE j \in DOMAIN v.map : j.n = k.n]])
      [] OTHER -> v

\* The stored value after one call, as the claim words it: save replaces it,
\* append adds the item at the end of the array, update sets the key.
Claimed(cur, c) ==
    CASE c.op = "save" -> c.data
      [] c.op = "append" -> PyList(Append(cur.items, c.data.items[1]))
      [] c.op = "update" -> PyDict((c.key :> c.data.items[1]) @@ cur.map)
      [] OTHER -> cur

\* The calls the claim gives a meaning to: an append to an array, an update
\* of an object, a save of any data.
RECURSIVE Meaningful(_, _, _)
Meaningful(ops, i, cur) ==
    IF i > Len(ops) THEN TRUE
    ELSE /\ ops[i].op = "append" => cur.kind = "list"
         /\ ops[i].op = "update" => cur.kind = "dict"
         /\ Meaningful(ops, i + 1, Claimed(cur, ops[i]))

RECURSIVE ClaimedAfter(_, _, _)
ClaimedAfter(ops, i, cur) ==
    IF i > Len(ops) THEN cur ELSE ClaimedAfter(ops, i + 1, Claimed(cur, ops[i]))

\* The last call was load().
Loaded == sth.ops # <<>> /\ sth.ops[Len(sth.ops)].op = "load"

\* C33 as claimed: load() returns the value produced by applying the saves,
\* appends and updates in order, None when there were none.
C33_LoadReturnsApplied ==
    (Loaded /\ Meaningful(sth.ops, 1, PyNone)) =>
        /\ st.raised = NoKey
        /\ st.ret = ClaimedAfter(sth.ops, 1, PyNone)

\* The stored value after one call: a value json cannot write makes the file
\* unreadable, and so it stays until a save succeeds; append and update start
\* from an empty array or object when nothing or a false value is stored and
\* leave a true value of another kind alone.
Stored(cur, c) ==
    LET item == c.data.items[1]
    IN  CASE c.op = "save" -> IF DumpRaises(c.data) THEN Unreadable ELSE AsJSON(c.data)
          [] c.op = "append" ->
                 IF cur = Unreadable \/ (Truthy(cur) /\ cur.kind # "list") THEN cur
                 ELSE IF item = Unserializable THEN Unreadable
                 ELSE PyList((IF Truthy(cur) THEN cur.items ELSE <<>>) \o <<item>>)
          [] c.op = "update" ->
                 IF cur = Unreadable \/ (Truthy(cur) /\ cur.kind # "dict") THEN cur
                 ELSE IF item = Unserializable THEN Unreadable
                 ELSE LET key == StrKey(c.key.n)
                          old == IF Truthy(cur) THEN cur.map ELSE EmptyDict
                      IN  PyDict([k \in DOMAIN old \cup {key} |->
                                     IF k = key THEN item ELSE old[k]])
          [] OTHER -> cur

RECURSIVE StoredAfter(_, _, _)
StoredAfter(ops, i, cur) ==
    IF i > Len(ops) THEN cur ELSE StoredAfter(ops, i + 1, Stored(cur, ops[i]))

\* C33: load() returns the JSON image of the value the saves, appends and
\* updates produce in order, None when nothing was written; it raises when
\* the last write was of a value json cannot serialize.
C33_LoadReturnsStored ==
    Loaded =>
        LET v == StoredAfter(sth.ops, 1, PyNone)
        IN  IF v = Unreadable
            THEN st.raised = "JSONDecodeError"
            ELSE st.raised = NoKey /\ st.ret = v

\* A list was saved, an item appended, and load() returned both.
C33_Witness ==
    /\ Loaded
    /\ \E i \in DOMAIN sth.ops : sth.ops[i].op = "append"
    /\ st.raised = NoKey
    /\ st.ret.kind = "list"
    /\ Len(st.ret.items) >= 2

\* ----------------------------------------------- the selector chains of login

\* The candidates of the current chain fill or click was called on, in order.
ActedOn == SelectSeq([i \in 1..Len(selh.tried) |-> i], LAMBDA i : Matched(selh.tried[i]))

\* The candidates that existed and were visible when tried.
VisibleOnes == {i \in DOMAIN selh.tried : Matched(selh.tried[i])}

\* The candidates whose fill or click returned.
Succeeded == {i \in DOMAIN selh.tried : selh.tried[i] = "acted"}

\* C34 as claimed: each chain acts on exactly the first candidate that exists
\* and is visible and on no later one; Enter is pressed exactly once when no
\* login control matched and not at all when one matched.
C34_FirstVisibleOnly ==
    /\ Len(ActedOn) <= 1
    /\ sel.submitted => sel.enters = (IF VisibleOnes = {} THEN 1 ELSE 0)

\* C34: each chain stops at the first candidate that exists, is visible and
\* whose fill or click returns: no candidate after it is tried, and every
\* candidate acted on before it raised; a candidate whose lookup raises is
\* skipped. Enter is pressed exactly once when no click returned and not at
\* all when one did.
C34_FirstSuccessOnly ==
    /\ Cardinality(Succeeded) <= 1
    /\ \A i \in Succeeded : i = Len(selh.tried) /\ sel.done
    /\ sel.done => Succeeded # {}
    /\ (sel.chain \in DOMAIN Chains /\ ~sel.done) => sel.i = Len(selh.tried) + 1
    /\ sel.submitted => sel.enters = (IF Succeeded = {} THEN 1 ELSE 0)
    /\ ~sel.submitted => sel.enters = 0

\* The lookup of the first candidate raised, a later one was clicked, and no
\* Enter was pressed.
C34_Witness ==
    /\ sel.submitted
    /\ sel.enters = 0
    /\ Len(selh.tried) >= 2
    /\ selh.tried[1] = "lookup_raises"
    /\ Succeeded # {}

\* The grids and the tables of the result of a live-DOM extraction.
LiveItems == Range(ex.result.grids) \cup Range(ex.result.tables)

\* C35: every grid and every table of a live-DOM result is tagged with the
\* identifier (the id, "unknown" without one) of a visible iframe that was
\* processed and gave data; hidden iframes and iframes without content frame
\* contribute nothing; on a run without error total_grids and total_tables are
\* the lengths of grids and tables.
C35_ItemsTaggedAndCounted ==
    LiveReturned =>
        /\ \A it \in LiveItems :
               /\ it.frame \in DOMAIN ex.frames
               /\ LET fr == ex.frames[it.frame]
                  IN  /\ fr.visible
                      /\ fr.out = "data"
                      /\ it.source_iframe = (IF fr.id = NoKey THEN "unknown" ELSE fr.id)
        /\ ~ex.result.error =>
               /\ ex.result.data["total_grids"] = Len(ex.result.grids)
               /\ ex.result.data["total_tables"] = Len(ex.result.tables)

\* A run without error over a hidden iframe and one without id that gave a
\* table: the table is tagged "unknown" and counted.
C35_Witness ==
    /\ LiveReturned
    /\ ~ex.result.error
    /\ \E j \in DOMAIN ex.frames : ~ex.frames[j].visible
    /\ \E it \in Range(ex.result.tables) : it.source_iframe = "unknown"
    /\ ex.result.data["total_tables"] >= 1

\* ---------------------------------------------------- the use of an ETSLinkScraper

\* The entry of a code carries an error tag.
ErrorTagged(c) == HasError(etsh.last.results[c])

\* C36: scrape_location raises and touches no browser unless a login
\* succeeded earlier on the scraper and no close() came after it;
\* scrape_all_locations never raises and returns one entry for every code
\* asked for and for no other, with an error tag for every code that is
\* unknown or whose scrape_location raised.
C36_GuardedExtraction ==
    /\ (etsh.last.op = "scrape_location" /\ ~etsh.authed) =>
           etsh.last.raised /\ ~etsh.last.interacted
    /\ etsh.last.op = "scrape_all_locations" =>
           /\ ~etsh.last.raised
           /\ \A c \in AllCodes :
                  (etsh.last.results[c] # Absent) <=> (c \in etsh.last.codes)
           /\ \A c \in etsh.last.codes :
                  (~KnownLocation(c) \/ ~ets.logged_in \/ ~ets.page) => ErrorTagged(c)

\* C39: close() releases the resources held, page, context, browser and
\* playwright in this order, also when a release raises, and leaves every
\* field None; a close() after a close() that returned releases nothing.
C39_CloseIdempotentAndComplete ==
    etsh.last.op = "close" =>
        /\ etsh.last.released
               = SelectSeq(ReleaseOrder, LAMBDA r : r \in etsh.last.held)
        /\ Held(ets) = {}
        /\ etsh.prev = "close" => etsh.last.released = <<>>

\* C37: after any sequence of form-submit logins on one SessionScraper,
\* logged_in is true exactly when the most recent login succeeded.
C37_LoggedInFollowsLastLogin ==
    Posted => (au.logged_in <=> au.ok)

\* C38: on the response of any form-submit login, login returns True exactly
\* when login_with_details returns success=True, and logged_in is what either
\* of them makes of it.
C38_LoginVariantsAgree ==
    Posted =>
        /\ SessionLogin(auh.resp) <=> LoginWithDetails(auh.resp).success
        /\ au.logged_in <=> (auh.before \/ SessionLogin(auh.resp))
        /\ au.logged_in <=> (auh.before \/ LoginWithDetails(auh.resp).success)

\* C40: in a run whose authentication has not succeeded nothing is written to
\* the persistence sink and the data of the result is the initial empty
\* value (no entry in the per-target map; no title, links or tables); the
\* sink is written at most once per run, and only after a successful login.
C40_SinkOnlyAfterAuthentication ==
    /\ h.saves <= 1
    /\ h.loginRes # "ok" =>
           /\ h.saves = 0
           /\ result.data = InitialData
           /\ result.locations = InitialResult.locations

\* A T18 run whose login was rejected has returned, nothing saved.
C40_Witness ==
    /\ Returned /\ entry = "t18" /\ h.loginCalls = 1 /\ h.loginRes = "fail"
    /\ h.closeCalls = 1 /\ h.saves = 0 /\ result.data = InitialData

====
